\* Two watchpoints, set, moved and cleared by a tool that makes a new connection
\* for each session, in a process whose threads come and go.
SPECIFICATION Spec
CONSTANTS
  MaxWatchpoints = 2
  ThreadIds = {t1, t2, t3}
  Addrs = {a1, a2}
  Null = Null
  Lengths = {1}
  BreakTypes = {3}
  Given <- MCGiven
  Tidy = TRUE
SYMMETRY Symmetry
INVARIANTS
  TypeOK
  ContextIsAsked
  ThreadsWatchWhatWasAsked

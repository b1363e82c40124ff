CONSTANTS
  h1 = h1
  h2 = h2
  t1 = t1
  Hosts = {h1, h2}
  Threads = {t1}
  Size = 2
  Gran = 1
  MaxCpm = 2
  CpmWait = 0
  MaxTime = 4
  MaxAsked = 3
SPECIFICATION Spec
\* The clock stops at MaxTime.
CHECK_DEADLOCK FALSE
INVARIANTS
  WithinLimit

CONSTANTS
  s1 = s1
  w1 = w1
  w2 = w2
  p1 = p1
  p2 = p2
  p3 = p3
  Services = {s1}
  Workers = {w1, w2}
  Pids = {p1, p2, p3}
  Limits = {1, 2}
  MaxLimit = 2
  TooMany = 0
  MaxAccepts = 1
  Hazards = {"reload", "new mapping", "bad config"}
  NoService = NoService
  NoPid = NoPid
SPECIFICATION Spec
\* The daemon ends when a configuration is bad.
CHECK_DEADLOCK FALSE
SYMMETRY Symmetry
INVARIANTS
  Accounting
  RemovedIsClosed

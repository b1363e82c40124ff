CONSTANTS
  s1 = s1
  w1 = w1
  w2 = w2
  p1 = p1
  p2 = p2
  p3 = p3
  Services = {s1}
  Workers = {w1, w2}
  Pids = {p1, p2}
  Limits = {1}
  MaxLimit = 1
  TooMany = 0
  MaxAccepts = 1
  Hazards = {"unsigned socket"}
  NoService = NoService
  NoPid = NoPid
SPECIFICATION Spec
CHECK_DEADLOCK FALSE
INVARIANT DaemonUp

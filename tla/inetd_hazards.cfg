CONSTANTS
  s1 = s1
  w1 = w1
  w2 = w2
  p1 = p1
  p2 = p2
  p3 = p3
  Services = {s1}
  Workers = {w1, w2}
  Pids = {p1, p2, p3}
  Limits = {1}
  MaxLimit = 1
  TooMany = 2
  MaxAccepts = 1
  Hazards = {"bind fails", "quick child", "accept fails", "socket fails", "pid reuse"}
  NoService = NoService
  NoPid = NoPid
SPECIFICATION Spec
\* The daemon ends when an AcceptEx is refused or its memory is corrupt.
CHECK_DEADLOCK FALSE
SYMMETRY Symmetry
INVARIANT Overshoot

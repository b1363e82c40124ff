CONSTANTS
  p1 = p1
  p2 = p2
  s1 = s1
  s2 = s2
  f1 = f1
  f2 = f2
  Pids = {p1, p2}
  MaxLate = 2
  MaxSignals = 1
  MaxPort = 1
  Unassigned = {p2}
  NoPid = NoPid
  Services = {s1, s2}
  Streams = {s1}
  Builtins = {s2}
  Fds = {f1, f2}
  PipeFd = PipeFd
  FdMax = 3
  Limits = {1, 2}
  MaxLimit = 2
  Rates = {0, 2}
  MaxRate = 2
  MaxWaiting = 1
  NoFd = NoFd
  NoService = NoService
SPECIFICATION DispatchSpec
\* The daemon ends with SIGTERM, a bad configuration or corrupt memory.
CHECK_DEADLOCK FALSE
INVARIANTS
  TypesOK
  NoLostWakeup
  TrackedOnce
  SelectRight
PROPERTIES
  ReaperSpec
  RoomAtRound
  Served

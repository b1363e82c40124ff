CONSTANTS
  h1 = h1
  h2 = h2
  t1 = t1
  w1 = w1
  w2 = w2
  c1 = c1
  c2 = c2
  p1 = p1
  p2 = p2
  p3 = p3
  Hosts = {h1, h2}
  Threads = {t1}
  Size = 2
  Gran = 1
  MaxCpm = 1
  CpmWait = 1
  MaxTime = 3
  MaxAsked = 2
  Workers = {w1, w2}
  Main = Main
  Conns = {c1, c2}
  Procs = {p1, p2, p3}
  Limits = {0, 2}
  Copies = {"address", "pointer"}
  Garbled = Garbled
  Nil = Nil
  V4 = 2
  V6 = 3
  MaxRules = 4
  Readers = {"conf", "xconf"}
  Copying = {"own", "shared"}
  MaxRead = 3
  Day = 5
  Periods = {3, 4}
  Purges = {0, 2}
  MaxGap = 1
  MaxSleep = 4
  MaxNow = 12
SPECIFICATION PeersSpec
\* The clocks stop at MaxTime and MaxNow; files end, and undefined behaviour ends Entries.
CHECK_DEADLOCK FALSE
SYMMETRY Symmetry
INVARIANTS
  PeersTypesOK
  KeptWithinLimit
  PerHost
  RulesRight
  EntriesRight
  ReadsCurrent
  VolumesRight
PROPERTIES
  RefusedOnlyOver
  LinesKept

CONSTANTS
  a1 = a1
  a2 = a2
  t1 = t1
  t2 = t2
  t3 = t3
  Pushers = {a1, a2}
  MaxLines = 3
  Period = 2
  OpenFails = TRUE
  Size = 2
  MaxText = 4
  Failures = {"register", "OnInit", "Initialise", "server ends"}
  MaxSockets = 2
  Faults = {"setup fails", "resume fails", "duplicate fails", "clone fails", "child ends"}
  Threads = {t1, t2, t3}
  Pair = {t1, t2}
  Nobody = Nobody
  Garbage = Garbage
SPECIFICATION ServiceSpec
\* The logger, the server and the process end; text is bounded.
CHECK_DEADLOCK FALSE
INVARIANTS
  TypesOK
  NoLostWakeup
  LogWhole
  CleanExit
  AnswerKept
  Asserts
PROPERTIES
  LogSpec
  GoesOn
  StopServed
  HandoverSpec
  NobodyHangs
  ReadersWriterSpec
  WriterGetsIn

------------------------------ MODULE MCService ------------------------------
(***************************************************************************)
(* The parts around the daemon's table, as TLC checks them: the queue of   *)
(* the log, the streams that lead to it, the life of the                   *)
(* service, the hand-over of a socket, the readers/writer lock, and the    *)
(* mutexes, locks and threads of libsthread.  They share no state here; a  *)
(* behaviour is one of the eight.                                          *)
(***************************************************************************)
EXTENDS Logger, FiniteSets
CONSTANTS
  a1, a2, t1, t2, t3,
  Size, MaxText,                                   \* ServiceLog
  Failures,                                        \* ServiceControl
  MaxSockets, Faults,                              \* SocketShare
  Threads, Pair, Nobody, Garbage                   \* RwLock, SLocks; SMutex; SLocks
VARIABLES
  part,
  slOpened, opening, slPipe, ended, slStop, slLogging, created, terminate, ep, buf, lines, printed,
  console, logger, mpc, told, hpc, scStatus, scm, running, stopEvent, server, logging,
  stopped, scEarly, deaf, alone,
  ssPpc, ssCpc, pipe, wire, parentEvent, childEvent, asked, yes, no, taken, early,
  pc, writeLock, readerLock, noreader, readers, status,
  mxPc, op, lock, flag, nest, section, condLock, condFlag, asleep, ready, wiped,
  skPc, spin, spinOwner, shared, exclusive, owner, unset, stray,
  caller, thread, detached, allocated, handle, joining, ret, open, result, quick, late, wild

SL == INSTANCE ServiceLog WITH opened <- slOpened, pipe <- slPipe, stop <- slStop, logging <- slLogging
SC == INSTANCE ServiceControl WITH status <- scStatus, early <- scEarly
SS == INSTANCE SocketShare WITH ppc <- ssPpc, cpc <- ssCpc
RL == INSTANCE RwLock
MX == INSTANCE SMutex WITH Threads <- Pair, pc <- mxPc
SK == INSTANCE SLocks WITH pc <- skPc
ST == INSTANCE SThread

ASSUME ServiceAssumption ==
  /\ SL!Sound /\ IsFiniteSet(Threads) /\ Nobody \notin Threads \cup Pair
  /\ Garbage \notin Threads \cup {Nobody}
  /\ MaxLines \in Nat /\ Period \in Nat \ {0}

streamVars  == <<slOpened, opening, slPipe, ended, slStop, slLogging, created, terminate, ep, buf, lines, printed>>
controlVars == <<console, logger, mpc, told, hpc, scStatus, scm, running, stopEvent, server, logging,
                 stopped, scEarly, deaf, alone>>
shareVars   == <<ssPpc, ssCpc, pipe, wire, parentEvent, childEvent, asked, yes, no, taken, early>>
lockVars    == <<pc, writeLock, readerLock, noreader, readers, status>>
mutexVars   == <<mxPc, op, lock, flag, nest, section, condLock, condFlag, asleep, ready, wiped>>
slimVars    == <<skPc, spin, spinOwner, shared, exclusive, owner, unset, stray>>
libVars     == <<mutexVars, slimVars>>
threadVars  == <<caller, thread, detached, allocated, handle, joining, ret, open, result, quick, late, wild>>
allVars     == <<part, vars, streamVars, controlVars, shareVars, lockVars, libVars, threadVars>>
others == <<vars, streamVars, controlVars, shareVars, lockVars>>

Of(name) == part = name

ServiceInit ==
  /\ part \in {"queue", "streams", "control", "share", "lock", "mutex", "locks", "thread"}
  /\ Init /\ SL!Init /\ SC!Init /\ SS!Init /\ RL!Init /\ MX!Init /\ SK!Init /\ ST!Init
  /\ Of("control") \/ (console /\ logger)
  /\ Of("thread") \/ ~detached
  /\ Of("locks") \/ ~unset

ServiceNext ==
  /\ \/ Of("queue") /\ Next /\ UNCHANGED <<streamVars, controlVars, shareVars, lockVars, libVars, threadVars>>
     \/ Of("streams") /\ SL!Next /\ UNCHANGED <<vars, controlVars, shareVars, lockVars, libVars, threadVars>>
     \/ Of("control") /\ SC!Next /\ UNCHANGED <<vars, streamVars, shareVars, lockVars, libVars, threadVars>>
     \/ Of("share") /\ SS!Next /\ UNCHANGED <<vars, streamVars, controlVars, lockVars, libVars, threadVars>>
     \/ Of("lock") /\ RL!Next /\ UNCHANGED <<vars, streamVars, controlVars, shareVars, libVars, threadVars>>
     \/ Of("mutex") /\ MX!Next /\ UNCHANGED <<slimVars, threadVars, others>>
     \/ Of("locks") /\ SK!Next /\ UNCHANGED <<mutexVars, threadVars, others>>
     \/ Of("thread") /\ ST!Next /\ UNCHANGED <<libVars, others>>
  /\ UNCHANGED part

\* The fairness of the eight specifications.
ServiceSpec ==
  /\ ServiceInit /\ [][ServiceNext]_allVars
  /\ WF_vars(Consumer) /\ \A p \in Pushers : WF_vars(Signal(p))
  /\ WF_streamVars(Of("streams") /\ SL!Setup)
  /\ \A i \in SL!Streams : WF_streamVars(SL!Connected(i) \/ SL!Unexpected(i) \/ SL!ReadSome(i))
  /\ WF_controlVars(Of("control") /\ SC!ServiceMain) /\ WF_controlVars(SC!Dispatcher)
  /\ WF_controlVars(SC!SignalPipe) /\ WF_controlVars(SC!ServerStops) /\ WF_controlVars(SC!LoggerEnds)
  /\ WF_shareVars(SS!Server) /\ WF_shareVars(SS!Client) /\ WF_shareVars(SS!Close)
  /\ \A t \in Threads : WF_lockVars(RL!Continue(t))
  /\ WF_threadVars(Of("thread") /\ ST!Calling) /\ WF_threadVars(ST!Running)

\* The states of the eight have their types.
TypesOK == TypeOK /\ SL!TypeOK /\ SC!TypeOK /\ SS!TypeOK /\ RL!TypeOK
           /\ MX!TypeOK /\ SK!TypeOK /\ ST!TypeOK

\* ServiceLog: the log has the lines as they were printed, all of them in the end, and the
\* server does not wait for the logger.
LogWhole == SL!LinesWhole /\ SL!Drained
GoesOn == SL!GoesOn

\* ServiceControl: a STOP is served, and the process does not exit under its server.
StopServed == SC!StopServed
CleanExit == SC!CleanExit

\* SocketShare: its answers are those of Handover, and none is lost.
HandoverSpec == SS!HandoverSpec
AnswerKept == SS!AnswerKept

\* Neither a child that waits for its socket nor a thread that joins another waits for ever.
NobodyHangs == SS!NobodyHangs /\ ST!Joined

\* What the locks and threads assert, or leave to their callers to trust: RwLock's status
\* and counts; SMutex's one owner, its nest, and no lost wakeup; SLocks' owners, up to a reader
\* that trusts a field pthread_rwlock_init() never wrote; SThread's instance, used until it is
\* freed and freed once.
Asserts == RL!Asserts /\ MX!Asserts /\ SK!Asserts /\ ST!Asserts /\ ST!Freed

\* RwLock: what callers see, and that writers get in.
ReadersWriterSpec == RL!ReadersWriterSpec
WriterGetsIn == RL!WriterGetsIn
=============================================================================

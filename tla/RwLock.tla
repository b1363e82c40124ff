------------------------------- MODULE RwLock -------------------------------
(***************************************************************************)
(* w32_rwlock.c where the system has no slim locks: a reader counts itself *)
(* under two critical sections, a writer keeps one of them, and an event   *)
(* tells it that the last reader has gone.  Around it, status repeats who  *)
(* holds the lock; rwlock_unlock() goes by it.                             *)
(***************************************************************************)
EXTENDS Integers, FiniteSets

CONSTANTS Threads, Nobody

VARIABLES
  pc,           \* thread -> the step it is about to take
  writeLock,    \* the owner of write_lock
  readerLock,   \* the owner of reader_lock
  noreader,     \* noreader_cond, a manual-reset event
  readers,      \* counted readers; -99 of a writer
  status        \* readers inside; -1 of a writer

vars == <<pc, writeLock, readerLock, noreader, readers, status>>

Steps == {"idle", "rdlock", "rdenter", "rdstatus", "reading", "rdunlock", "rddrop", "rdsignal",
          "wrlock", "wrcheck", "wrwait", "wrset", "wrstatus", "writing", "wrunlock", "wrdrop"}

At(S) == {t \in Threads : pc[t] \in S}

TypeOK ==
  /\ pc \in [Threads -> Steps]
  /\ writeLock \in Threads \cup {Nobody} /\ readerLock \in Threads \cup {Nobody}
  /\ noreader \in BOOLEAN
  /\ readers \in Int /\ status \in Int

Init ==
  /\ pc = [t \in Threads |-> "idle"]
  /\ writeLock = Nobody /\ readerLock = Nobody
  /\ noreader = TRUE
  /\ readers = 0 /\ status = 0

Step(t, from, to) == pc[t] = from /\ pc' = [pc EXCEPT ![t] = to]

-----------------------------------------------------------------------------
(* rwlock_rdlock() and rwlock_rdunlock().                                  *)

Begin(t) ==
  /\ Step(t, "idle", "rdlock") \/ Step(t, "idle", "wrlock")
  /\ UNCHANGED <<writeLock, readerLock, noreader, readers, status>>

RdLockNot(t) ==  \* mutant: a reader does not wait for write_lock
  /\ Step(t, "rdlock", "rdenter")
  /\ UNCHANGED <<writeLock, readerLock, noreader, readers, status>>

RdLock(t) ==
  /\ Step(t, "rdlock", "rdenter")
  /\ writeLock = Nobody /\ writeLock' = t
  /\ UNCHANGED <<readerLock, noreader, readers, status>>

\* Both sections are left again.
RdEnter(t) ==
  /\ Step(t, "rdenter", "rdstatus")
  /\ readerLock = Nobody
  /\ readers' = readers + 1
  /\ noreader' = (noreader /\ readers' # 1)
  /\ writeLock' = Nobody
  /\ UNCHANGED <<readerLock, status>>

RdStatus(t) ==
  /\ Step(t, "rdstatus", "reading")
  /\ status' = status + 1
  /\ UNCHANGED <<writeLock, readerLock, noreader, readers>>

\* rwlock_unlock() for either; it reads status.
UnlockSwapped(t) ==  \* mutant: a lock with one reader is taken for a writer's
  /\ IF status # 1 THEN Step(t, "reading", "rdunlock") ELSE Step(t, "reading", "wrunlock")
  /\ UNCHANGED <<writeLock, readerLock, noreader, readers, status>>

Unlock(t) ==
  /\ \E held \in {"reading", "writing"} :
       Step(t, held, IF status < 0 THEN "wrunlock" ELSE "rdunlock")
  /\ UNCHANGED <<writeLock, readerLock, noreader, readers, status>>

RdUnlock(t) ==
  /\ Step(t, "rdunlock", "rddrop")
  /\ status' = status - 1
  /\ UNCHANGED <<writeLock, readerLock, noreader, readers>>

\* The last one keeps reader_lock until it has set the event.
RdDrop(t) ==
  /\ readerLock = Nobody
  /\ readers' = readers - 1
  /\ IF readers = 1 THEN Step(t, "rddrop", "rdsignal") /\ readerLock' = t
                    ELSE Step(t, "rddrop", "idle") /\ UNCHANGED readerLock
  /\ UNCHANGED <<writeLock, noreader, status>>

RdSignalNot(t) ==  \* mutant: the writer is not told
  /\ Step(t, "rdsignal", "idle")
  /\ readerLock' = Nobody
  /\ UNCHANGED <<writeLock, noreader, readers, status>>

RdSignal(t) ==
  /\ Step(t, "rdsignal", "idle")
  /\ noreader' = TRUE /\ readerLock' = Nobody
  /\ UNCHANGED <<writeLock, readers, status>>

-----------------------------------------------------------------------------
(* rwlock_wrlock() and rwlock_wrunlock().                                  *)

WrLock(t) ==
  /\ Step(t, "wrlock", "wrcheck")
  /\ writeLock = Nobody /\ writeLock' = t
  /\ UNCHANGED <<readerLock, noreader, readers, status>>

WrCheck(t) ==
  /\ Step(t, "wrcheck", IF readers > 0 THEN "wrwait" ELSE "wrset")
  /\ UNCHANGED <<writeLock, readerLock, noreader, readers, status>>

WrWaitNot(t) ==  \* mutant: the wait ends before the event is set
  /\ Step(t, "wrwait", "wrset")
  /\ UNCHANGED <<writeLock, readerLock, noreader, readers, status>>

WrWait(t) ==
  /\ Step(t, "wrwait", "wrset")
  /\ noreader
  /\ UNCHANGED <<writeLock, readerLock, noreader, readers, status>>

WrSet(t) ==
  /\ Step(t, "wrset", "wrstatus")
  /\ readers' = -99
  /\ UNCHANGED <<writeLock, readerLock, noreader, status>>

WrStatus(t) ==
  /\ Step(t, "wrstatus", "writing")
  /\ status' = -1
  /\ UNCHANGED <<writeLock, readerLock, noreader, readers>>

WrUnlock(t) ==
  /\ Step(t, "wrunlock", "wrdrop")
  /\ status' = 0
  /\ UNCHANGED <<writeLock, readerLock, noreader, readers>>

WrDrop(t) ==
  /\ Step(t, "wrdrop", "idle")
  /\ readers' = 0 /\ writeLock' = Nobody
  /\ UNCHANGED <<readerLock, noreader, status>>

-----------------------------------------------------------------------------
Continue(t) ==
  \/ RdLock(t) \/ RdEnter(t) \/ RdStatus(t) \/ Unlock(t) \/ RdUnlock(t) \/ RdDrop(t) \/ RdSignal(t)
  \/ WrLock(t) \/ WrCheck(t) \/ WrWait(t) \/ WrSet(t) \/ WrStatus(t) \/ WrUnlock(t) \/ WrDrop(t)

Next == \E t \in Threads : Begin(t) \/ Continue(t)

Spec == Init /\ [][Next]_vars

\* A thread that has begun goes on, and gives the lock back.  A critical section is not
\* fair: a thread may wait for it forever.
FairSpec == Spec /\ \A t \in Threads : WF_vars(Continue(t))

-----------------------------------------------------------------------------
(* Properties.                                                             *)

\* No assertion of the code fails: what status and readers say at each step, whatever the
\* other threads do between a thread's change of one and its change of the other.
Asserts == \A t \in Threads :
  /\ pc[t] = "rdstatus" => status # -1
  /\ pc[t] \in {"reading", "rdunlock"} => status > 0
  /\ pc[t] = "rddrop"   => readers > 0
  /\ pc[t] = "wrset"    => readers = 0
  /\ pc[t] = "wrstatus" => status = 0
  /\ pc[t] \in {"writing", "wrunlock"} => status = -1
  /\ pc[t] = "wrdrop"   => readers = -99

\* Callers see a readers/writer lock.
RW == INSTANCE ReadersWriter WITH
  reading <- At({"reading", "rdunlock"}),
  writing <- At({"writing", "wrunlock"})

ReadersWriterSpec == RW!Spec

\* Readers do not overtake a writer that has come as far as write_lock: it gets in when
\* those inside have gone.
WriterGetsIn == \A t \in Threads : pc[t] = "wrcheck" ~> pc[t] = "writing"
=============================================================================

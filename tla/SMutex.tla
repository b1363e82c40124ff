------------------------------- MODULE SMutex -------------------------------
(***************************************************************************)
(* mutex.c and condition.c of libsthread: a mutex and a condition variable *)
(* that initialise themselves on first use, under a flag that is read      *)
(* without a lock, and the count of the mutex, nest, by which              *)
(* pthread_cond_wait() and pthread_mutex_unlock() tell that it is held.    *)
(* The callers keep one predicate under the mutex: they wait while it does *)
(* not hold, and the one who makes it hold broadcasts.  The assertions are *)
(* looked at, the steps are those of the build without them.               *)
(***************************************************************************)
EXTENDS Integers, FiniteSets

CONSTANTS Threads, Nobody

VARIABLES
  pc,         \* thread -> the step it is about to take
  op,         \* thread -> the call it is in
  lock, flag, nest,  \* the mutex: of its initialisation; initialised; count of the owner
  section,    \* the owner of its critical section
  condLock, condFlag,  \* the condition: of its initialisation; initialised
  asleep,     \* the threads it knows to sleep on it
  ready,      \* the callers' predicate
  wiped       \* nest was reset under a thread that had counted itself

vars == <<pc, op, lock, flag, nest, section, condLock, condFlag, asleep, ready, wiped>>
mutexVars == <<lock, flag, nest, section, wiped>>
condVars  == <<condLock, condFlag, asleep>>

Steps == {"idle", "check", "initlock", "initcheck", "initflag", "initnest", "initleave",
          "enter", "count", "locked", "unlock", "leave",
          "ccheck", "cinitlock", "cinitcheck", "cinitflag", "cinitleave",
          "assert", "sleep", "asleep", "awake", "renest", "wake"}
Calls == {"lock", "trylock", "unlock", "wait", "timedwait", "signal", "broadcast"}

At(S) == {t \in Threads : pc[t] \in S}

TypeOK ==
  /\ pc \in [Threads -> Steps] /\ op \in [Threads -> Calls]
  /\ lock \in BOOLEAN /\ flag \in BOOLEAN /\ nest \in -1 .. 2
  /\ section \in Threads \cup {Nobody}
  /\ condLock \in BOOLEAN /\ condFlag \in BOOLEAN /\ asleep \subseteq Threads
  /\ ready \in BOOLEAN /\ wiped \in BOOLEAN

\* Both are PTHREAD_..._INITIALIZER.
Init ==
  /\ pc = [t \in Threads |-> "idle"] /\ op = [t \in Threads |-> "unlock"]
  /\ lock = FALSE /\ flag = FALSE /\ nest = 0 /\ section = Nobody
  /\ condLock = FALSE /\ condFlag = FALSE /\ asleep = {}
  /\ ready = FALSE /\ wiped = FALSE

Goto(t, from, to) == pc[t] = from /\ pc' = [pc EXCEPT ![t] = to]
Call(t, from, calls, to) ==
  Goto(t, from, to) /\ \E call \in calls : op' = [op EXCEPT ![t] = call]
Stay == UNCHANGED <<op, ready>>

-----------------------------------------------------------------------------
(* mutex_init_once(): flag is set before nest is.                          *)

Begin(t) ==
  /\ Call(t, "idle", {"lock", "trylock"}, "check")
  /\ UNCHANGED <<mutexVars, condVars, ready>>

Check(t) ==
  /\ Goto(t, "check", IF flag THEN "enter" ELSE "initlock")
  /\ UNCHANGED <<mutexVars, condVars>> /\ Stay

InitLock(t) ==
  /\ Goto(t, "initlock", "initcheck")
  /\ ~lock /\ lock' = TRUE
  /\ UNCHANGED <<flag, nest, section, wiped, condVars>> /\ Stay

InitCheckNot(t) ==  \* mutant: the flag is not looked at again under the lock
  /\ Goto(t, "initcheck", "initflag")
  /\ section' = Nobody
  /\ UNCHANGED <<lock, flag, nest, wiped, condVars>> /\ Stay

\* InitializeCriticalSection() makes a section that nobody owns.
InitCheck(t) ==
  /\ IF flag THEN Goto(t, "initcheck", "initleave") /\ UNCHANGED section
             ELSE Goto(t, "initcheck", "initflag") /\ section' = Nobody
  /\ UNCHANGED <<lock, flag, nest, wiped, condVars>> /\ Stay

InitFlag(t) ==
  /\ Goto(t, "initflag", "initnest")
  /\ flag' = TRUE
  /\ UNCHANGED <<lock, nest, section, wiped, condVars>> /\ Stay

InitNest(t) ==
  /\ Goto(t, "initnest", "initleave")
  /\ nest' = 0 /\ wiped' = (wiped \/ nest # 0)
  /\ UNCHANGED <<lock, flag, section, condVars>> /\ Stay

InitLeave(t) ==
  /\ Goto(t, "initleave", "enter")
  /\ lock' = FALSE
  /\ UNCHANGED <<flag, nest, section, wiped, condVars>> /\ Stay

-----------------------------------------------------------------------------
(* pthread_mutex_lock(), trylock() and unlock().  nest is unsigned; -1     *)
(* stands for its largest value.                                           *)

Enter(t) ==
  /\ Goto(t, "enter", "count")
  /\ section = Nobody /\ section' = t
  /\ UNCHANGED <<lock, flag, nest, wiped, condVars>> /\ Stay

Busy(t) ==
  /\ Goto(t, "enter", "idle")
  /\ op[t] = "trylock" /\ section # Nobody
  /\ UNCHANGED <<mutexVars, condVars>> /\ Stay

Count(t) ==
  /\ Goto(t, "count", "locked")
  /\ nest' = nest + 1
  /\ UNCHANGED <<lock, flag, section, wiped, condVars>> /\ Stay

UnlockEarly(t) ==  \* mutant: the section is left before the count is lowered
  /\ Goto(t, "unlock", "leave")
  /\ section' = Nobody
  /\ UNCHANGED <<lock, flag, nest, wiped, condVars>> /\ Stay

Unlock(t) ==
  /\ Goto(t, "unlock", "leave")
  /\ nest' = nest - 1
  /\ UNCHANGED <<lock, flag, section, wiped, condVars>> /\ Stay

Leave(t) ==
  /\ Goto(t, "leave", "idle")
  /\ section' = Nobody
  /\ UNCHANGED <<lock, flag, nest, wiped, condVars>> /\ Stay

-----------------------------------------------------------------------------
(* What a caller does under the mutex: it waits until the predicate holds, *)
(* or makes it hold and broadcasts, or has done.  A signal may come from   *)
(* anyone at any time.                                                     *)

Wait(t) ==
  /\ Call(t, "locked", {"wait", "timedwait"}, "ccheck")
  /\ ~ready
  /\ UNCHANGED <<mutexVars, condVars, ready>>

Satisfy(t) ==
  /\ Call(t, "locked", {"broadcast"}, "ccheck")
  /\ ~ready /\ ready' = TRUE
  /\ UNCHANGED <<mutexVars, condVars>>

Done(t) ==
  /\ Call(t, "locked", {"unlock"}, "unlock")
  /\ UNCHANGED <<mutexVars, condVars, ready>>

Signal(t) ==
  /\ Call(t, "idle", {"signal"}, "ccheck")
  /\ UNCHANGED <<mutexVars, condVars, ready>>

-----------------------------------------------------------------------------
(* condition_init_once().                                                  *)

Called(t) == IF op[t] \in {"wait", "timedwait"} THEN "assert" ELSE "wake"

CondCheck(t) ==
  /\ Goto(t, "ccheck", IF condFlag THEN Called(t) ELSE "cinitlock")
  /\ UNCHANGED <<mutexVars, condVars>> /\ Stay

CondInitLock(t) ==
  /\ Goto(t, "cinitlock", "cinitcheck")
  /\ ~condLock /\ condLock' = TRUE
  /\ UNCHANGED <<mutexVars, condFlag, asleep>> /\ Stay

CondInitCheckNot(t) ==  \* mutant: the flag is not looked at again under the lock
  /\ Goto(t, "cinitcheck", "cinitflag")
  /\ asleep' = {}
  /\ UNCHANGED <<mutexVars, condLock, condFlag>> /\ Stay

\* InitializeConditionVariable() makes one that nobody sleeps on.
CondInitCheck(t) ==
  /\ IF condFlag THEN Goto(t, "cinitcheck", "cinitleave") /\ UNCHANGED asleep
                 ELSE Goto(t, "cinitcheck", "cinitflag") /\ asleep' = {}
  /\ UNCHANGED <<mutexVars, condLock, condFlag>> /\ Stay

CondInitFlag(t) ==
  /\ Goto(t, "cinitflag", "cinitleave")
  /\ condFlag' = TRUE
  /\ UNCHANGED <<mutexVars, condLock, asleep>> /\ Stay

CondInitLeave(t) ==
  /\ Goto(t, "cinitleave", Called(t))
  /\ condLock' = FALSE
  /\ UNCHANGED <<mutexVars, condFlag, asleep>> /\ Stay

-----------------------------------------------------------------------------
(* pthread_cond_wait(), timedwait(), signal() and broadcast().             *)

\* EINVAL of a mutex that is not locked once: the caller still has it.
Assert(t) ==
  /\ IF nest = 1 THEN Goto(t, "assert", "sleep") /\ nest' = nest - 1
                 ELSE Goto(t, "assert", "locked") /\ UNCHANGED nest
  /\ UNCHANGED <<lock, flag, section, wiped, condVars>> /\ Stay

\* ETIMEDOUT of a time that has passed already.
Expired(t) ==
  /\ Goto(t, "assert", "locked")
  /\ op[t] = "timedwait"
  /\ UNCHANGED <<mutexVars, condVars>> /\ Stay

SleepLate(t) ==  \* mutant: the section is left before the thread is on the condition
  /\ pc[t] = "sleep"
  /\ IF section = t THEN section' = Nobody /\ UNCHANGED <<pc, asleep>>
     ELSE Goto(t, "sleep", "asleep") /\ asleep' = asleep \cup {t} /\ UNCHANGED section
  /\ UNCHANGED <<lock, flag, nest, wiped, condLock, condFlag>> /\ Stay

Sleep(t) ==
  /\ Goto(t, "sleep", "asleep")
  /\ section' = Nobody /\ asleep' = asleep \cup {t}
  /\ UNCHANGED <<lock, flag, nest, wiped, condLock, condFlag>> /\ Stay

Timeout(t) ==
  /\ Goto(t, "asleep", "awake")
  /\ op[t] = "timedwait" /\ asleep' = asleep \ {t}
  /\ UNCHANGED <<mutexVars, condLock, condFlag>> /\ Stay

Awake(t) ==
  /\ Goto(t, "awake", "renest")
  /\ section = Nobody /\ section' = t
  /\ UNCHANGED <<lock, flag, nest, wiped, condVars>> /\ Stay

Renest(t) ==
  /\ Goto(t, "renest", "locked")
  /\ nest' = nest + 1
  /\ UNCHANGED <<lock, flag, section, wiped, condVars>> /\ Stay

\* The condition wakes those it knows of.
Wake(t) ==
  \E woken \in SUBSET asleep :
    /\ pc[t] = "wake"
    /\ IF op[t] = "broadcast" THEN woken = asleep
                             ELSE Cardinality(woken) = IF asleep = {} THEN 0 ELSE 1
    /\ asleep' = asleep \ woken
    /\ pc' = [u \in Threads |-> IF u \in woken THEN "awake" ELSE IF u # t THEN pc[u]
                               ELSE IF op[t] = "broadcast" THEN "locked" ELSE "idle"]
    /\ UNCHANGED <<mutexVars, condLock, condFlag>> /\ Stay

-----------------------------------------------------------------------------
Next ==
  \E t \in Threads :
    \/ Begin(t) \/ Check(t) \/ InitLock(t) \/ InitCheck(t) \/ InitFlag(t) \/ InitNest(t) \/ InitLeave(t)
    \/ Enter(t) \/ Busy(t) \/ Count(t) \/ Unlock(t) \/ Leave(t)
    \/ Wait(t) \/ Satisfy(t) \/ Done(t) \/ Signal(t)
    \/ CondCheck(t) \/ CondInitLock(t) \/ CondInitCheck(t) \/ CondInitFlag(t) \/ CondInitLeave(t)
    \/ Assert(t) \/ Expired(t) \/ Sleep(t) \/ Timeout(t) \/ Awake(t) \/ Renest(t) \/ Wake(t)

Spec == Init /\ [][Next]_vars

-----------------------------------------------------------------------------
\* Where a thread has the mutex, as its caller sees it.
InMutex == {"count", "locked", "unlock", "leave", "assert", "sleep", "renest"}
InCond  == {"ccheck", "cinitlock", "cinitcheck", "cinitflag", "cinitleave", "wake"}
Holds(t) == pc[t] \in InMutex \/ (pc[t] \in InCond /\ op[t] # "signal")

\* One thread at a time, the owner of the section: the section is initialised once, before
\* anyone enters it, and a waiter comes back only with it.
Exclusive == \A t \in Threads : Holds(t) => section = t

\* "should be locked", pthread_mutex_unlock() and the waits (mutex.c:163, condition.c:136):
\* nest is 1 wherever it is looked at, for a thread that has the mutex and no other counts
\* itself; but for the threads that got in between the flag and nest of the first use.
NestRight == wiped \/ At({"unlock", "assert"}) = {} \/ nest = 1

\* No wakeup is lost: when the predicate holds and its broadcast has gone out, nobody sleeps,
\* whoever initialised the condition and whenever.
NoLostWakeup ==
  ready => At({"asleep"}) = {} \/ \E t \in At(InCond) : op[t] = "broadcast"

Asserts == Exclusive /\ NestRight /\ NoLostWakeup
=============================================================================

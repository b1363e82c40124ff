------------------------------- MODULE SLocks -------------------------------
(***************************************************************************)
(* spinlock.c, rwlock.c and satomic.h of libsthread: a word and a slim     *)
(* lock of the system, each with the thread that has it kept beside it in  *)
(* a field of its own, which is written after the lock is taken and read   *)
(* without it.  The owner of the spin lock may ask for it again; what is   *)
(* not held is not unlocked.  The owner of the slim lock is whatever the   *)
(* memory held until its first writer, unless it was initialised           *)
(* statically.  The assertions are looked at, the steps are those of the   *)
(* build without them.                                                     *)
(***************************************************************************)
EXTENDS Naturals

CONSTANTS
  Threads, Nobody,
  Garbage     \* what memory may hold that is neither 0 nor the identifier of a thread

VARIABLES
  pc,         \* thread -> the step it is about to take
  spin, spinOwner,     \* pthread_spinlock_t
  shared, exclusive,   \* the slim lock: its readers, its writer
  owner,      \* of pthread_rwlock_t
  unset,      \* owner is as pthread_rwlock_init() left it
  stray       \* a reader has taken the way of a writer to give the lock back

vars == <<pc, spin, spinOwner, shared, exclusive, owner, unset, stray>>
spinVars == <<spin, spinOwner>>
slimVars == <<shared, exclusive, owner, unset, stray>>

Steps == {"idle", "spin", "spinowner", "spinning", "again", "spindrop",
          "rdlock", "reading", "wrlock", "wrowner", "writing", "wrdrop"}

Owners == Threads \cup {Nobody, Garbage}

TypeOK ==
  /\ pc \in [Threads -> Steps]
  /\ spin \in BOOLEAN /\ spinOwner \in Threads \cup {Nobody}
  /\ shared \subseteq Threads
  /\ exclusive \in Threads \cup {Nobody} /\ owner \in Owners
  /\ unset \in BOOLEAN /\ stray \in BOOLEAN

\* pthread_spin_init() writes both of its fields.
SpinInit == spin = FALSE /\ spinOwner = Nobody

\* pthread_rwlock_init() initialises the slim lock alone: owner is 0 only in memory that was
\* zero, or of PTHREAD_RWLOCK_INITIALIZER.
RwInit ==
  /\ shared = {} /\ exclusive = Nobody /\ stray = FALSE
  /\ unset \in BOOLEAN /\ owner \in Owners /\ (unset \/ owner = Nobody)

Init == pc = [t \in Threads |-> "idle"] /\ SpinInit /\ RwInit

At(S) == {t \in Threads : pc[t] \in S}
Goto(t, from, to) == pc[t] = from /\ pc' = [pc EXCEPT ![t] = to]

Begin(t) ==
  /\ \/ \E call \in {"spin", "rdlock", "wrlock"} : Goto(t, "idle", call)
     \/ Goto(t, "spinning", "again")
  /\ UNCHANGED <<spinVars, slimVars>>

-----------------------------------------------------------------------------
(* pthread_spin_lock(), trylock() and unlock().                            *)

\* EDEADLK to the thread that the owner's field names.
Deadlock(t) ==
  /\ \E from \in {"spin", "again"} : Goto(t, from, IF from = "spin" THEN "idle" ELSE "spinning")
  /\ spinOwner = t
  /\ UNCHANGED <<spinVars, slimVars>>

\* satomic_try_lock(): the word is exchanged for 1; while it was 1 already a lock tries
\* again and a trylock returns EBUSY.
Spin(t) ==
  /\ Goto(t, "spin", "spinowner")
  /\ spinOwner # t /\ ~spin /\ spin' = TRUE
  /\ UNCHANGED <<spinOwner, slimVars>>

SpinBusy(t) ==
  /\ Goto(t, "spin", "idle")
  /\ spinOwner # t /\ spin
  /\ UNCHANGED <<spinVars, slimVars>>

SpinOwner(t) ==
  /\ Goto(t, "spinowner", "spinning")
  /\ spinOwner' = t
  /\ UNCHANGED <<spin, slimVars>>

SpinUnlockSwapped(t) ==  \* mutant: the word is given back before the owner is cleared
  /\ IF spin THEN spin' = FALSE /\ UNCHANGED <<pc, spinOwner>> /\ pc[t] = "spinning"
             ELSE Goto(t, "spinning", "idle") /\ spinOwner' = Nobody /\ UNCHANGED spin
  /\ UNCHANGED slimVars

\* EPERM to another than the owner.
SpinUnlock(t) ==
  /\ IF spinOwner = t THEN Goto(t, "spinning", "spindrop") /\ spinOwner' = Nobody
                      ELSE Goto(t, "spinning", "idle") /\ UNCHANGED spinOwner
  /\ UNCHANGED <<spin, slimVars>>

SpinDrop(t) ==
  /\ Goto(t, "spindrop", "idle")
  /\ spin' = FALSE
  /\ UNCHANGED <<spinOwner, slimVars>>

-----------------------------------------------------------------------------
(* pthread_rwlock_rdlock(), wrlock(), their try forms and unlock().        *)

RdLock(t) ==
  /\ Goto(t, "rdlock", "reading")
  /\ exclusive = Nobody /\ shared' = shared \cup {t}
  /\ UNCHANGED <<exclusive, owner, unset, stray, spinVars>>

WrLock(t) ==
  /\ Goto(t, "wrlock", "wrowner")
  /\ exclusive = Nobody /\ shared = {} /\ exclusive' = t
  /\ UNCHANGED <<shared, owner, unset, stray, spinVars>>

TryBusy(t) ==
  /\ \/ Goto(t, "rdlock", "idle") /\ exclusive # Nobody
     \/ Goto(t, "wrlock", "idle") /\ ~(exclusive = Nobody /\ shared = {})
  /\ UNCHANGED <<spinVars, slimVars>>

WrOwner(t) ==
  /\ Goto(t, "wrowner", "writing")
  /\ owner' = t /\ unset' = FALSE
  /\ UNCHANGED <<shared, exclusive, stray, spinVars>>

UnlockSwapped(t) ==  \* mutant: a writer gives the lock back before it clears the owner
  /\ \E held \in {"reading", "writing"} : pc[t] = held /\
       IF owner = Nobody
       THEN Goto(t, held, "idle") /\ shared' = shared \ {t} /\ UNCHANGED <<exclusive, owner>>
       ELSE IF exclusive = Nobody
       THEN Goto(t, held, "idle") /\ owner' = Nobody /\ UNCHANGED <<exclusive, shared>>
       ELSE exclusive' = Nobody /\ UNCHANGED <<pc, shared, owner>>
  /\ UNCHANGED <<unset, stray, spinVars>>

\* A reader is told from a writer by the owner's field.
Unlock(t) ==
  /\ \E held \in {"reading", "writing"} :
       IF owner = Nobody
       THEN Goto(t, held, "idle") /\ shared' = shared \ {t} /\ UNCHANGED <<owner, stray>>
       ELSE /\ Goto(t, held, "wrdrop") /\ owner' = Nobody /\ UNCHANGED shared
            /\ stray' = (held = "reading")
  /\ UNCHANGED <<exclusive, unset, spinVars>>

WrDrop(t) ==
  /\ Goto(t, "wrdrop", "idle")
  /\ exclusive' = Nobody
  /\ UNCHANGED <<shared, owner, unset, stray, spinVars>>

-----------------------------------------------------------------------------
\* A reader that is astray fails the assertion; without it the system is asked to release a
\* lock that is not held that way, and what becomes of the lock is undefined: it ends here.
Next ==
  /\ ~stray
  /\ \E t \in Threads :
       \/ Begin(t) \/ Deadlock(t)
       \/ Spin(t) \/ SpinBusy(t) \/ SpinOwner(t) \/ SpinUnlock(t) \/ SpinDrop(t)
       \/ RdLock(t) \/ WrLock(t) \/ TryBusy(t) \/ WrOwner(t) \/ Unlock(t) \/ WrDrop(t)

Spec == Init /\ [][Next]_vars

-----------------------------------------------------------------------------
\* One thread has the spin lock, one writer and no reader, or no writer, the other, as long as
\* no reader has given it back like a writer.
Exclusive ==
  /\ \A t, u \in At({"spinowner", "spinning", "again", "spindrop"}) : t = u
  /\ stray \/ \A t \in At({"wrowner", "writing", "wrdrop"}) :
                At({"wrowner", "writing", "wrdrop", "reading"}) = {t}

\* The field tells the owner from everyone else while it has the lock, so no spin unlock is
\* refused (EPERM), nor lock (EDEADLK), and a rwlock is given back the way it was taken, with
\* the owner that rwlock.c:119 asserts: always if its memory was zero, else by every writer,
\* and by readers from the first writer on.  Only before can a reader go astray.
OwnerRight ==
  /\ \A t \in At({"spinning", "again"}) : spinOwner = t /\ spin
  /\ \A t \in At({"spin"}) : spinOwner # t
  /\ stray => unset
  /\ stray \/ \A t \in At({"reading"}) : (owner = Nobody \/ unset) /\ t \in shared
  /\ stray \/ \A t \in At({"writing"}) : owner = t /\ exclusive = t /\ ~unset

Asserts == Exclusive /\ OwnerRight
=============================================================================

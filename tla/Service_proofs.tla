--------------------------- MODULE Service_proofs ---------------------------
(***************************************************************************)
(* Proofs about the parts that MCService runs.  About Logger, for any      *)
(* threads and any number of lines: no wakeup is lost, and what reaches    *)
(* the file is what Log promises.  About SMutex and SLocks, for any        *)
(* threads, SThread and ServiceControl: what they assert; about ServiceLog *)
(* that its log has the lines that were printed, and all of them when it   *)
(* stops; about SocketShare, for any sockets and faults: that it           *)
(* implements the safety of Handover, and that an answer is not lost;      *)
(* about RwLock, for any threads: that none of its assertions fails and    *)
(* that it is a readers/writer lock; and their types.  Last, the           *)
(* specification of the eight.                                             *)
(***************************************************************************)
EXTENDS MCService, FiniteSetTheorems, SequenceTheorems, WellFoundedInduction, TLAPS

-----------------------------------------------------------------------------
(* Logger.                                                                 *)

States == {"none", "wait", "steal", "write", "check", "flush", "ended"}

Types ==
  /\ impl \in {"none", "started", "nofile", "stopped"} /\ cpc \in States
  /\ term \in {"no", "asked", "last"}
  /\ queue \in Seq(Nat) /\ slice \in Seq(Nat) /\ log \in Seq(Nat)
  /\ tail \in Nat /\ atStop \in Nat \cup {-1}
  /\ ppc \in [Pushers -> {"idle", "signal"}]

\* Nothing happens before start(), and there is no consumer without a file.
Before ==
  /\ impl = "none" => tail = 0
  /\ impl \in {"none", "nofile"} => cpc = "none" /\ ~stop
  /\ impl = "started" => cpc # "none"

\* Lines that wait have a wakeup on its way, or the consumer is about to take them.
Wakeup == queue # <<>> => wake \/ stop \/ (\E p \in Pushers : ppc[p] = "signal") \/ cpc = "steal"

\* The file, the lines taken and the queue are one sequence, in order and without a gap.
Numbered ==
  /\ Len(log) + Len(slice) + Len(queue) = tail
  /\ \A i \in 1 .. Len(slice) : slice[i] = Len(log) + i
  /\ \A i \in 1 .. Len(queue) : queue[i] = Len(log) + Len(slice) + i
  /\ cpc \in {"none", "wait", "steal", "flush", "ended"} => slice = <<>>
  /\ cpc = "write" => slice # <<>>

\* The last drain has seen every line pushed before stop().
Stopping ==
  /\ (stop <=> atStop # -1) /\ atStop <= tail
  /\ term # "no" => stop
  /\ cpc = "wait" => term = "no"
  /\ (term = "asked" /\ cpc \in {"write", "check", "flush"}) \/ term = "last"
       => Len(log) + Len(slice) >= atStop

LoggerInv == Types /\ Before /\ Wakeup /\ Numbered /\ Stopping

-----------------------------------------------------------------------------
LEMMA LoggerInit == Init => LoggerInv
<1> SUFFICES ASSUME Init PROVE LoggerInv
  OBVIOUS
<1>1. Types
  BY DEF Init, Types, States
<1>2. Before /\ Wakeup
  BY DEF Init, Before, Wakeup
<1>3. Numbered
  BY DEF Init, Numbered
<1>4. Stopping
  BY DEF Init, Stopping
<1> QED
  BY <1>1, <1>2, <1>3, <1>4 DEF LoggerInv

LEMMA TypesStep == ASSUME LoggerInv, [Next]_vars PROVE Types'
<1> USE DEF LoggerInv, Types, States, pushVars, consVars
<1>1. CASE Start \/ Stop \/ Stopped
  BY <1>1 DEF Start, Stop, Stopped
<1>2. ASSUME NEW p \in Pushers, Push(p) PROVE Types'
  BY <1>2 DEF Push
<1>3. ASSUME NEW p \in Pushers, Signal(p) PROVE Types'
  BY <1>3 DEF Signal
<1>4. CASE Woken \/ TimedOut \/ Steal
  <2>1. CASE Woken
    BY <2>1 DEF Woken
  <2>2. CASE TimedOut
    BY <2>2 DEF TimedOut
  <2>3. CASE Steal
    BY <2>3 DEF Steal
  <2> QED
    BY <1>4, <2>1, <2>2, <2>3
<1>5. CASE Write
  <2>1. slice # <<>> /\ Head(slice) \in Nat
    BY <1>5 DEF Write, Numbered
  <2> QED
    BY <1>5, <2>1 DEF Write
<1>6. CASE Check \/ Flush
  BY <1>6 DEF Check, Flush
<1>7. CASE UNCHANGED vars
  BY <1>7 DEF vars
<1> QED
  BY <1>1, <1>2, <1>3, <1>4, <1>5, <1>6, <1>7 DEF Next, Consumer

LEMMA LoggerStep == ASSUME LoggerInv, [Next]_vars PROVE LoggerInv'
<1>0. Types'
  BY TypesStep
<1> USE DEF LoggerInv, Types, States, pushVars, consVars
<1>1. CASE Start \/ Stop \/ Stopped
  <2>1. CASE Start
    <3>1. cpc = "none" /\ cpc' \in {"none", "wait"} /\ impl' \in {"started", "nofile"}
          /\ (impl' = "started" <=> cpc' = "wait")
      BY <2>1 DEF Start, Before
    <3>2. UNCHANGED <<queue, tail, ppc, wake, stop, term, slice, log, atStop>>
      BY <2>1 DEF Start
    <3>3. ~stop /\ term = "no" /\ slice = <<>>
      BY <2>1, <3>1 DEF Start, Before, Stopping, Numbered
    <3> QED
      BY <1>0, <3>1, <3>2, <3>3 DEF Before, Wakeup, Numbered, Stopping
  <2>2. CASE Stop
    BY <1>0, <2>2 DEF Stop, Before, Wakeup, Numbered, Stopping
  <2>3. CASE Stopped
    BY <1>0, <2>3 DEF Stopped, Before, Wakeup, Numbered, Stopping
  <2> QED
    BY <1>1, <2>1, <2>2, <2>3
<1>2. ASSUME NEW p \in Pushers, Push(p) PROVE LoggerInv'
  <2>1. Before' /\ Wakeup'
    BY <1>2 DEF Push, Before, Wakeup
  <2>2. Numbered'
    <3>1. queue' = Append(queue, tail + 1) /\ tail' = tail + 1 /\ UNCHANGED <<cpc, slice, log>>
      BY <1>2 DEF Push
    <3>2. Len(queue') = Len(queue) + 1 /\ queue'[Len(queue) + 1] = tail + 1
          /\ \A i \in 1 .. Len(queue) : queue'[i] = queue[i]
      BY <3>1
    <3>3. Len(log) + Len(slice) + Len(queue) = tail
          /\ \A i \in 1 .. Len(queue) : queue[i] = Len(log) + Len(slice) + i
      BY DEF Numbered
    <3>4. ASSUME NEW i \in 1 .. Len(queue') PROVE queue'[i] = Len(log) + Len(slice) + i
      <4>1. i \in 1 .. Len(queue) \/ i = Len(queue) + 1
        BY <3>2
      <4> QED
        BY <3>2, <3>3, <4>1
    <3>5. Len(log) + Len(slice) + Len(queue') = tail'
      BY <3>1, <3>2, <3>3
    <3> QED
      BY <3>1, <3>4, <3>5 DEF Numbered
  <2>3. Stopping'
    BY <1>2 DEF Push, Stopping
  <2> QED
    BY <1>0, <2>1, <2>2, <2>3
<1>3. ASSUME NEW p \in Pushers, Signal(p) PROVE LoggerInv'
  BY <1>0, <1>3 DEF Signal, Before, Wakeup, Numbered, Stopping
<1>4. CASE Woken \/ TimedOut
  <2>1. CASE Woken
    BY <1>0, <2>1 DEF Woken, Before, Wakeup, Numbered, Stopping
  <2>2. CASE TimedOut
    BY <1>0, <2>2 DEF TimedOut, Before, Wakeup, Numbered, Stopping
  <2> QED
    BY <1>4, <2>1, <2>2
<1>5. CASE Steal
  <2>1. Before' /\ Wakeup'
    BY <1>5 DEF Steal, Before, Wakeup
  <2>2. Numbered'
    BY <1>5 DEF Steal, Numbered
  <2>3. Stopping'
    BY <1>5 DEF Steal, Stopping, Numbered
  <2> QED
    BY <1>0, <2>1, <2>2, <2>3
<1>6. CASE Write
  <2>1. Len(log') = Len(log) + 1 /\ Len(slice') = Len(slice) - 1
        /\ \A i \in 1 .. Len(slice') : slice'[i] = slice[i + 1]
    BY <1>6 DEF Write, Numbered
  <2>2. Before' /\ Wakeup'
    BY <1>6 DEF Write, Before, Wakeup
  <2>3. Numbered'
    <3>1. UNCHANGED <<queue, tail>> /\ cpc' \in {"check", "flush", "write"}
          /\ (cpc' = "flush" => slice' = <<>>) /\ (cpc' = "write" => slice' # <<>>)
      BY <1>6 DEF Write
    <3>2. \A i \in 1 .. Len(slice') : slice'[i] = Len(log') + i
      <4> SUFFICES ASSUME NEW i \in 1 .. Len(slice')
                   PROVE  slice'[i] = Len(log') + i
        OBVIOUS
      <4>0. Len(slice) \in Nat /\ Len(slice') \in Nat
        BY <1>0
      <4>1. i \in Nat /\ i + 1 \in 1 .. Len(slice)
        BY <2>1, <4>0
      <4>2. slice[i + 1] = Len(log) + (i + 1)
        BY <4>1 DEF Numbered
      <4> QED
        BY <2>1, <4>1, <4>2
    <3>3. Len(log') + Len(slice') = Len(log) + Len(slice)
      BY <2>1
    <3>4. /\ Len(log') + Len(slice') + Len(queue') = tail'
          /\ \A i \in 1 .. Len(queue') : queue'[i] = Len(log') + Len(slice') + i
      BY <3>1, <3>3 DEF Numbered
    <3> QED
      BY <3>1, <3>2, <3>4 DEF Numbered
  <2>4. Stopping'
    <3>1. UNCHANGED <<tail, stop, term, atStop>> /\ cpc = "write"
          /\ cpc' \in {"check", "flush", "write"}
      BY <1>6 DEF Write
    <3> QED
      BY <1>0, <2>1, <3>1 DEF Stopping
  <2> QED
    BY <1>0, <2>2, <2>3, <2>4
<1>7. CASE Check
  BY <1>0, <1>7 DEF Check, Before, Wakeup, Numbered, Stopping
<1>8. CASE Flush
  BY <1>0, <1>8 DEF Flush, Before, Wakeup, Numbered, Stopping
<1>9. CASE UNCHANGED vars
  BY <1>0, <1>9 DEF vars, Before, Wakeup, Numbered, Stopping
<1> QED
  BY <1>1, <1>2, <1>3, <1>4, <1>5, <1>6, <1>7, <1>8, <1>9 DEF Next, Consumer

\* No wakeup is lost between the pushers and the consumer: lines that wait while it sleeps
\* have a signal to come, set or about to be set, for any number of threads and lines.
THEOREM WakeupsKept == Spec => []NoLostWakeup
<1>1. LoggerInv => NoLostWakeup
  BY DEF LoggerInv, Wakeup, NoLostWakeup
<1> QED
  BY <1>1, LoggerInit, LoggerStep, PTL DEF Spec

LEMMA LogMaps == ASSUME LoggerInv, [Next]_vars PROVE [L!Next]_(L!vars)
<1> USE DEF L!Next, L!vars, LoggerInv, Types, States, pushVars, consVars
<1>1. CASE Start
  BY <1>1 DEF Start, Before
<1>2. CASE Stop
  BY <1>2 DEF Stop, Stopping, L!Stop
<1>3. ASSUME NEW p \in Pushers, Push(p) PROVE [L!Next]_(L!vars)
  BY <1>3 DEF Push, L!Push
<1>4. CASE Write
  <2>1. Head(slice) = Len(log) + 1 /\ Len(log) < tail /\ impl # "nofile"
    BY <1>4 DEF Write, Numbered, Before
  <2>2. log' = Append(log, Len(log) + 1) /\ cpc = "write" /\ cpc' # "ended"
        /\ UNCHANGED <<impl, tail, atStop>>
    BY <1>4, <2>1 DEF Write
  <2> QED
    BY <2>1, <2>2 DEF L!Line
<1>5. CASE Flush
  BY <1>5 DEF Flush, Stopping, Numbered, L!Close
<1>6. CASE UNCHANGED <<impl, tail, log, atStop>> /\ (cpc # "ended") = (cpc' # "ended")
  BY <1>6
<1>7. CASE Stopped
  BY <1>7 DEF Stopped
<1>8. CASE Woken \/ TimedOut \/ Steal \/ Check
  BY <1>6, <1>8 DEF Woken, TimedOut, Steal, Check
<1>9. ASSUME NEW p \in Pushers, Signal(p) PROVE [L!Next]_(L!vars)
  BY <1>6, <1>9 DEF Signal
<1> QED
  BY <1>1, <1>2, <1>3, <1>4, <1>5, <1>6, <1>7, <1>8, <1>9 DEF Next, Consumer, vars

\* The queue, the lines consumer_drain() has taken and its turns implement Log's safety:
\* lines are handled once and in the order of push(), and the consumer ends only after
\* those pushed before stop(), for any number of threads, lines and checks of the file.
THEOREM LogSafety == Spec => L!Safety
<1>1. Init => L!Init
  BY DEF Init, L!Init
<1> QED
  BY <1>1, LoggerInit, LoggerStep, LogMaps, PTL DEF Spec, L!Safety

-----------------------------------------------------------------------------
(* SMutex: the mutex.                                                      *)

MutexTypes ==
  /\ mxPc \in [Pair -> MX!Steps] /\ op \in [Pair -> MX!Calls]
  /\ flag \in BOOLEAN /\ wiped \in BOOLEAN /\ condFlag \in BOOLEAN /\ ready \in BOOLEAN

\* A thread that has counted itself.
Counted(t) ==
  \/ mxPc[t] \in {"locked", "unlock", "assert"}
  \/ mxPc[t] \in MX!InCond /\ op[t] # "signal"

\* Where a thread may be before the mutex is initialised.
Unmade == {"idle", "check", "initlock", "initcheck", "initflag"}

MutexInv ==
  /\ MX!Exclusive
  /\ ~flag => \A t \in Pair : mxPc[t] \in Unmade \/ (mxPc[t] \in MX!InCond /\ op[t] = "signal")
  /\ ~wiped => nest = IF \E t \in Pair : Counted(t) THEN 1 ELSE 0

\* The condition knows who sleeps on it, from before anyone does; who waits has found the
\* predicate not to hold, and it stays so until the mutex is given up.
CondInv ==
  /\ asleep = MX!At({"asleep"})
  /\ ~condFlag => MX!At({"assert", "sleep", "asleep", "wake", "cinitleave"}) = {}
  /\ \A t \in Pair :
       /\ mxPc[t] \in {"assert", "sleep"} => op[t] \in {"wait", "timedwait"} /\ ~ready
       /\ mxPc[t] = "wake" => op[t] \in {"signal", "broadcast"}
       /\ mxPc[t] \in MX!InCond /\ op[t] \notin {"signal", "broadcast"} =>
            op[t] \in {"wait", "timedwait"} /\ ~ready
  /\ MX!NoLostWakeup

LEMMA MutexTypesStep == ASSUME MutexTypes, [MX!Next]_MX!vars PROVE MutexTypes'
<1> USE DEF MutexTypes, MX!Steps, MX!Calls, MX!Goto, MX!Stay, MX!mutexVars, MX!condVars
<1>1. ASSUME NEW t \in Pair, MX!Begin(t) PROVE MutexTypes'
  BY <1>1 DEF MX!Begin, MX!Call
<1>2. ASSUME NEW t \in Pair, MX!Check(t) PROVE MutexTypes'
  BY <1>2 DEF MX!Check
<1>3. ASSUME NEW t \in Pair, MX!InitLock(t) PROVE MutexTypes'
  BY <1>3 DEF MX!InitLock
<1>4. ASSUME NEW t \in Pair, MX!InitCheck(t) PROVE MutexTypes'
  BY <1>4 DEF MX!InitCheck
<1>5. ASSUME NEW t \in Pair, MX!InitFlag(t) PROVE MutexTypes'
  BY <1>5 DEF MX!InitFlag
<1>6. ASSUME NEW t \in Pair, MX!InitNest(t) PROVE MutexTypes'
  BY <1>6 DEF MX!InitNest
<1>7. ASSUME NEW t \in Pair, MX!InitLeave(t) PROVE MutexTypes'
  BY <1>7 DEF MX!InitLeave
<1>8. ASSUME NEW t \in Pair, MX!Enter(t) PROVE MutexTypes'
  BY <1>8 DEF MX!Enter
<1>9. ASSUME NEW t \in Pair, MX!Busy(t) PROVE MutexTypes'
  BY <1>9 DEF MX!Busy
<1>10. ASSUME NEW t \in Pair, MX!Count(t) PROVE MutexTypes'
  BY <1>10 DEF MX!Count
<1>11. ASSUME NEW t \in Pair, MX!Unlock(t) PROVE MutexTypes'
  BY <1>11 DEF MX!Unlock
<1>12. ASSUME NEW t \in Pair, MX!Leave(t) PROVE MutexTypes'
  BY <1>12 DEF MX!Leave
<1>13. ASSUME NEW t \in Pair, MX!Wait(t) PROVE MutexTypes'
  BY <1>13 DEF MX!Wait, MX!Call
<1>14. ASSUME NEW t \in Pair, MX!Satisfy(t) PROVE MutexTypes'
  BY <1>14 DEF MX!Satisfy, MX!Call
<1>15. ASSUME NEW t \in Pair, MX!Done(t) PROVE MutexTypes'
  BY <1>15 DEF MX!Done, MX!Call
<1>16. ASSUME NEW t \in Pair, MX!Signal(t) PROVE MutexTypes'
  BY <1>16 DEF MX!Signal, MX!Call
<1>17. ASSUME NEW t \in Pair, MX!CondCheck(t) PROVE MutexTypes'
  BY <1>17 DEF MX!CondCheck, MX!Called
<1>18. ASSUME NEW t \in Pair, MX!CondInitLock(t) PROVE MutexTypes'
  BY <1>18 DEF MX!CondInitLock
<1>19. ASSUME NEW t \in Pair, MX!CondInitCheck(t) PROVE MutexTypes'
  BY <1>19 DEF MX!CondInitCheck
<1>20. ASSUME NEW t \in Pair, MX!CondInitFlag(t) PROVE MutexTypes'
  BY <1>20 DEF MX!CondInitFlag
<1>21. ASSUME NEW t \in Pair, MX!CondInitLeave(t) PROVE MutexTypes'
  BY <1>21 DEF MX!CondInitLeave, MX!Called
<1>22. ASSUME NEW t \in Pair, MX!Assert(t) PROVE MutexTypes'
  BY <1>22 DEF MX!Assert
<1>23. ASSUME NEW t \in Pair, MX!Expired(t) PROVE MutexTypes'
  BY <1>23 DEF MX!Expired
<1>24. ASSUME NEW t \in Pair, MX!Sleep(t) PROVE MutexTypes'
  BY <1>24 DEF MX!Sleep
<1>25. ASSUME NEW t \in Pair, MX!Timeout(t) PROVE MutexTypes'
  BY <1>25 DEF MX!Timeout
<1>26. ASSUME NEW t \in Pair, MX!Awake(t) PROVE MutexTypes'
  BY <1>26 DEF MX!Awake
<1>27. ASSUME NEW t \in Pair, MX!Renest(t) PROVE MutexTypes'
  BY <1>27 DEF MX!Renest
<1>28. ASSUME NEW t \in Pair, MX!Wake(t) PROVE MutexTypes'
  BY <1>28 DEF MX!Wake
<1>29. CASE UNCHANGED MX!vars
  BY <1>29 DEF MX!vars, MX!mutexVars, MX!condVars, Counted, MX!Holds
<1> QED
  BY <1>1, <1>2, <1>3, <1>4, <1>5, <1>6, <1>7, <1>8, <1>9, <1>10, <1>11, <1>12, <1>13, <1>14,
     <1>15, <1>16, <1>17, <1>18, <1>19, <1>20, <1>21, <1>22, <1>23, <1>24, <1>25, <1>26, <1>27,
     <1>28, <1>29 DEF MX!Next

LEMMA MutexStep ==
  ASSUME MutexTypes, MutexInv, CondInv, [MX!Next]_MX!vars, Nobody \notin Pair
  PROVE  MutexInv'
<1> USE DEF MutexTypes, MutexInv, MX!Steps, MX!Calls, MX!Goto, MX!Stay, MX!mutexVars,
   MX!condVars
<1> USE DEF MX!Exclusive, MX!Holds, MX!InMutex, MX!InCond, Counted, Unmade
<1>1. ASSUME NEW t \in Pair, MX!Begin(t) PROVE MutexInv'
  BY <1>1 DEF MX!Begin, MX!Call
<1>2. ASSUME NEW t \in Pair, MX!Check(t) PROVE MutexInv'
  BY <1>2 DEF MX!Check
<1>3. ASSUME NEW t \in Pair, MX!InitLock(t) PROVE MutexInv'
  BY <1>3 DEF MX!InitLock
<1>4. ASSUME NEW t \in Pair, MX!InitCheck(t) PROVE MutexInv'
  BY <1>4 DEF MX!InitCheck
<1>5. ASSUME NEW t \in Pair, MX!InitFlag(t) PROVE MutexInv'
  BY <1>5 DEF MX!InitFlag
<1>6. ASSUME NEW t \in Pair, MX!InitNest(t) PROVE MutexInv'
  BY <1>6 DEF MX!InitNest
<1>7. ASSUME NEW t \in Pair, MX!InitLeave(t) PROVE MutexInv'
  BY <1>7 DEF MX!InitLeave
<1>8. ASSUME NEW t \in Pair, MX!Enter(t) PROVE MutexInv'
  BY <1>8 DEF MX!Enter
<1>9. ASSUME NEW t \in Pair, MX!Busy(t) PROVE MutexInv'
  BY <1>9 DEF MX!Busy
<1>10. ASSUME NEW t \in Pair, MX!Count(t) PROVE MutexInv'
  BY <1>10 DEF MX!Count
<1>11. ASSUME NEW t \in Pair, MX!Unlock(t) PROVE MutexInv'
  BY <1>11 DEF MX!Unlock
<1>12. ASSUME NEW t \in Pair, MX!Leave(t) PROVE MutexInv'
  BY <1>12 DEF MX!Leave
<1>13. ASSUME NEW t \in Pair, MX!Wait(t) PROVE MutexInv'
  BY <1>13 DEF MX!Wait, MX!Call
<1>14. ASSUME NEW t \in Pair, MX!Satisfy(t) PROVE MutexInv'
  BY <1>14 DEF MX!Satisfy, MX!Call
<1>15. ASSUME NEW t \in Pair, MX!Done(t) PROVE MutexInv'
  BY <1>15 DEF MX!Done, MX!Call
<1>16. ASSUME NEW t \in Pair, MX!Signal(t) PROVE MutexInv'
  BY <1>16 DEF MX!Signal, MX!Call
<1>17. ASSUME NEW t \in Pair, MX!CondCheck(t) PROVE MutexInv'
  BY <1>17 DEF MX!CondCheck, MX!Called
<1>18. ASSUME NEW t \in Pair, MX!CondInitLock(t) PROVE MutexInv'
  BY <1>18 DEF MX!CondInitLock
<1>19. ASSUME NEW t \in Pair, MX!CondInitCheck(t) PROVE MutexInv'
  BY <1>19 DEF MX!CondInitCheck
<1>20. ASSUME NEW t \in Pair, MX!CondInitFlag(t) PROVE MutexInv'
  BY <1>20 DEF MX!CondInitFlag
<1>21. ASSUME NEW t \in Pair, MX!CondInitLeave(t) PROVE MutexInv'
  BY <1>21 DEF MX!CondInitLeave, MX!Called
<1>22. ASSUME NEW t \in Pair, MX!Assert(t) PROVE MutexInv'
  BY <1>22 DEF MX!Assert
<1>23. ASSUME NEW t \in Pair, MX!Expired(t) PROVE MutexInv'
  BY <1>23 DEF MX!Expired
<1>24. ASSUME NEW t \in Pair, MX!Sleep(t) PROVE MutexInv'
  BY <1>24 DEF MX!Sleep
<1>25. ASSUME NEW t \in Pair, MX!Timeout(t) PROVE MutexInv'
  BY <1>25 DEF MX!Timeout
<1>26. ASSUME NEW t \in Pair, MX!Awake(t) PROVE MutexInv'
  BY <1>26 DEF MX!Awake
<1>27. ASSUME NEW t \in Pair, MX!Renest(t) PROVE MutexInv'
  BY <1>27 DEF MX!Renest
<1>28. ASSUME NEW t \in Pair, MX!Wake(t) PROVE MutexInv'
  <2>1. PICK woken \in SUBSET asleep :
          mxPc' = [u \in Pair |-> IF u \in woken THEN "awake" ELSE IF u # t THEN mxPc[u]
                                 ELSE IF op[t] = "broadcast" THEN "locked" ELSE "idle"]
    BY <1>28 DEF MX!Wake
  <2>2. /\ mxPc[t] = "wake" /\ (op[t] = "signal" \/ op[t] = "broadcast")
        /\ UNCHANGED <<op, flag, nest, section, wiped>>
    BY <1>28 DEF MX!Wake, CondInv
  <2>3. \A u \in woken : u \in Pair /\ mxPc[u] = "asleep"
    BY DEF CondInv, MX!At
  <2>4. \A u \in Pair : /\ MX!Holds(u)' <=> MX!Holds(u)
                        /\ Counted(u)' <=> Counted(u)
    BY <2>1, <2>2, <2>3
  <2>5. ~flag => op[t] = "signal" /\ woken = {}
    BY <2>2, <2>3
  <2>6. ~flag => \A u \in Pair : mxPc[u]' = IF u = t THEN "idle" ELSE mxPc[u]
    BY <2>1, <2>5
  <2> QED
    BY <2>2, <2>4, <2>6
<1>29. CASE UNCHANGED MX!vars
  BY <1>29 DEF MX!vars, MX!mutexVars, MX!condVars, Counted, MX!Holds
<1> QED
  BY <1>1, <1>2, <1>3, <1>4, <1>5, <1>6, <1>7, <1>8, <1>9, <1>10, <1>11, <1>12, <1>13, <1>14,
     <1>15, <1>16, <1>17, <1>18, <1>19, <1>20, <1>21, <1>22, <1>23, <1>24, <1>25, <1>26, <1>27,
     <1>28, <1>29 DEF MX!Next

LEMMA CondStep == ASSUME MutexTypes, MutexInv, CondInv, [MX!Next]_MX!vars PROVE CondInv'
<1> USE DEF MutexTypes, CondInv, MX!Steps, MX!Calls, MX!Goto, MX!Stay, MX!mutexVars, MX!condVars
<1> USE DEF MX!NoLostWakeup, MX!At, MX!InCond
<1>1. ASSUME NEW t \in Pair, MX!Begin(t) PROVE CondInv'
  BY <1>1 DEF MX!Begin, MX!Call
<1>2. ASSUME NEW t \in Pair, MX!Check(t) PROVE CondInv'
  BY <1>2 DEF MX!Check
<1>3. ASSUME NEW t \in Pair, MX!InitLock(t) PROVE CondInv'
  BY <1>3 DEF MX!InitLock
<1>4. ASSUME NEW t \in Pair, MX!InitCheck(t) PROVE CondInv'
  BY <1>4 DEF MX!InitCheck
<1>5. ASSUME NEW t \in Pair, MX!InitFlag(t) PROVE CondInv'
  BY <1>5 DEF MX!InitFlag
<1>6. ASSUME NEW t \in Pair, MX!InitNest(t) PROVE CondInv'
  BY <1>6 DEF MX!InitNest
<1>7. ASSUME NEW t \in Pair, MX!InitLeave(t) PROVE CondInv'
  BY <1>7 DEF MX!InitLeave
<1>8. ASSUME NEW t \in Pair, MX!Enter(t) PROVE CondInv'
  BY <1>8 DEF MX!Enter
<1>9. ASSUME NEW t \in Pair, MX!Busy(t) PROVE CondInv'
  BY <1>9 DEF MX!Busy
<1>10. ASSUME NEW t \in Pair, MX!Count(t) PROVE CondInv'
  BY <1>10 DEF MX!Count
<1>11. ASSUME NEW t \in Pair, MX!Unlock(t) PROVE CondInv'
  BY <1>11 DEF MX!Unlock
<1>12. ASSUME NEW t \in Pair, MX!Leave(t) PROVE CondInv'
  BY <1>12 DEF MX!Leave
<1>13. ASSUME NEW t \in Pair, MX!Wait(t) PROVE CondInv'
  BY <1>13 DEF MX!Wait, MX!Call
<1>14. ASSUME NEW t \in Pair, MX!Satisfy(t) PROVE CondInv'
  <2>1. /\ mxPc[t] = "locked" /\ mxPc' = [mxPc EXCEPT ![t] = "ccheck"]
        /\ op' = [op EXCEPT ![t] = "broadcast"]
        /\ ready' /\ UNCHANGED <<asleep, condFlag>>
    BY <1>14 DEF MX!Satisfy, MX!Call
  <2>2. \A u \in Pair \ {t} : ~MX!Holds(u)
    BY <2>1 DEF MutexInv, MX!Exclusive, MX!Holds, MX!InMutex
  <2> QED
    BY <2>1, <2>2 DEF MX!Holds, MX!InMutex
<1>15. ASSUME NEW t \in Pair, MX!Done(t) PROVE CondInv'
  BY <1>15 DEF MX!Done, MX!Call
<1>16. ASSUME NEW t \in Pair, MX!Signal(t) PROVE CondInv'
  BY <1>16 DEF MX!Signal, MX!Call
<1>17. ASSUME NEW t \in Pair, MX!CondCheck(t) PROVE CondInv'
  BY <1>17 DEF MX!CondCheck, MX!Called
<1>18. ASSUME NEW t \in Pair, MX!CondInitLock(t) PROVE CondInv'
  BY <1>18 DEF MX!CondInitLock
<1>19. ASSUME NEW t \in Pair, MX!CondInitCheck(t) PROVE CondInv'
  BY <1>19 DEF MX!CondInitCheck
<1>20. ASSUME NEW t \in Pair, MX!CondInitFlag(t) PROVE CondInv'
  BY <1>20 DEF MX!CondInitFlag
<1>21. ASSUME NEW t \in Pair, MX!CondInitLeave(t) PROVE CondInv'
  BY <1>21 DEF MX!CondInitLeave, MX!Called
<1>22. ASSUME NEW t \in Pair, MX!Assert(t) PROVE CondInv'
  BY <1>22 DEF MX!Assert
<1>23. ASSUME NEW t \in Pair, MX!Expired(t) PROVE CondInv'
  BY <1>23 DEF MX!Expired
<1>24. ASSUME NEW t \in Pair, MX!Sleep(t) PROVE CondInv'
  BY <1>24 DEF MX!Sleep
<1>25. ASSUME NEW t \in Pair, MX!Timeout(t) PROVE CondInv'
  BY <1>25 DEF MX!Timeout
<1>26. ASSUME NEW t \in Pair, MX!Awake(t) PROVE CondInv'
  BY <1>26 DEF MX!Awake
<1>27. ASSUME NEW t \in Pair, MX!Renest(t) PROVE CondInv'
  BY <1>27 DEF MX!Renest
<1>28. ASSUME NEW t \in Pair, MX!Wake(t) PROVE CondInv'
  BY <1>28 DEF MX!Wake
<1>29. CASE UNCHANGED MX!vars
  BY <1>29 DEF MX!vars, MX!mutexVars, MX!condVars, Counted, MX!Holds
<1> QED
  BY <1>1, <1>2, <1>3, <1>4, <1>5, <1>6, <1>7, <1>8, <1>9, <1>10, <1>11, <1>12, <1>13, <1>14,
     <1>15, <1>16, <1>17, <1>18, <1>19, <1>20, <1>21, <1>22, <1>23, <1>24, <1>25, <1>26, <1>27,
     <1>28, <1>29 DEF MX!Next

LEMMA MutexInit == ASSUME MX!Init PROVE MutexTypes /\ MutexInv /\ CondInv
<1>1. MutexTypes
  BY DEF MX!Init, MutexTypes, MX!Steps, MX!Calls
<1>2. MutexInv
  BY DEF MX!Init, MutexInv, MX!Exclusive, MX!Holds, MX!InMutex, MX!InCond, Counted, Unmade
<1>3. CondInv
  BY DEF MX!Init, CondInv, MX!At, MX!InCond, MX!NoLostWakeup
<1> QED
  BY <1>1, <1>2, <1>3

LEMMA MutexAsserts == ASSUME MutexInv, CondInv PROVE MX!Asserts
<1>1. ASSUME NEW t \in MX!At({"unlock", "assert"}), ~wiped PROVE nest = 1
  BY <1>1 DEF MutexInv, Counted, MX!At
<1> QED
  BY <1>1 DEF MutexInv, CondInv, MX!Asserts, MX!NestRight

-----------------------------------------------------------------------------
(* SLocks.                                                                 *)

HasSpin == {"spinowner", "spinning", "again", "spindrop"}
Writes  == {"wrowner", "writing", "wrdrop"}

\* The word is set and its owner named for the one who has it.
SpinInv ==
  /\ \A t \in Threads : skPc[t] \in HasSpin => spin
  /\ \A t, u \in Threads : skPc[t] \in HasSpin /\ skPc[u] \in HasSpin => t = u
  /\ \A t \in Threads : skPc[t] \in {"spinning", "again"} => spinOwner = t
  /\ spinOwner # Nobody => spinOwner \in Threads /\ skPc[spinOwner] \in {"spinning", "again"}

\* A writer has the slim lock and is named while it writes; a reader is one of its readers.
\* What the field names is one who writes, or is what pthread_rwlock_init() left there.
SlimInv ==
  /\ \A t \in Threads : skPc[t] \in Writes => exclusive = t /\ shared = {}
  /\ \A t \in Threads : skPc[t] = "reading" => t \in shared
  /\ \A t \in Threads : skPc[t] = "writing" => owner = t /\ ~unset
  /\ owner # Nobody => unset \/ (owner \in Threads /\ skPc[owner] = "writing")

LocksInv ==
  /\ skPc \in [Threads -> SK!Steps] /\ stray \in BOOLEAN /\ SpinInv
  /\ stray \/ SlimInv
  /\ stray => unset

LEMMA LocksStep == ASSUME LocksInv, [SK!Next]_SK!vars, Nobody \notin Threads PROVE LocksInv'
<1> USE DEF LocksInv, SpinInv, SlimInv, HasSpin, Writes, SK!Steps, SK!Goto, SK!spinVars,
   SK!slimVars
<1>1. ASSUME NEW t \in Threads, SK!Begin(t) PROVE LocksInv'
  BY <1>1 DEF SK!Begin
<1>2. ASSUME NEW t \in Threads, SK!Deadlock(t) PROVE LocksInv'
  BY <1>2 DEF SK!Deadlock
<1>3. ASSUME NEW t \in Threads, SK!Spin(t) PROVE LocksInv'
  BY <1>3 DEF SK!Spin
<1>4. ASSUME NEW t \in Threads, SK!SpinBusy(t) PROVE LocksInv'
  BY <1>4 DEF SK!SpinBusy
<1>5. ASSUME NEW t \in Threads, SK!SpinOwner(t) PROVE LocksInv'
  BY <1>5 DEF SK!SpinOwner
<1>6. ASSUME NEW t \in Threads, SK!SpinUnlock(t) PROVE LocksInv'
  BY <1>6 DEF SK!SpinUnlock
<1>7. ASSUME NEW t \in Threads, SK!SpinDrop(t) PROVE LocksInv'
  BY <1>7 DEF SK!SpinDrop
<1>8. ASSUME NEW t \in Threads, SK!RdLock(t) PROVE LocksInv'
  BY <1>8 DEF SK!RdLock
<1>9. ASSUME NEW t \in Threads, SK!TryBusy(t) PROVE LocksInv'
  BY <1>9 DEF SK!TryBusy
<1>10. ASSUME NEW t \in Threads, SK!WrLock(t) PROVE LocksInv'
  BY <1>10 DEF SK!WrLock
<1>11. ASSUME NEW t \in Threads, ~stray, SK!WrOwner(t) PROVE LocksInv'
  <2>1. \A u \in Threads \ {t} : skPc'[u] = skPc[u] /\ skPc[u] \notin Writes /\ skPc[u] # "reading"
    BY <1>11 DEF SK!WrOwner
  <2>2. skPc' \in [Threads -> SK!Steps] /\ skPc'[t] = "writing" /\ owner' = t /\ ~unset'
       /\ stray' = stray
    BY <1>11 DEF SK!WrOwner
  <2>3. SpinInv'
    BY <1>11, <2>1, <2>2 DEF SK!WrOwner
  <2>4. SlimInv'
    BY <1>11, <2>1, <2>2 DEF SK!WrOwner
  <2> QED
    BY <1>11, <2>2, <2>3, <2>4
<1>12. ASSUME NEW t \in Threads, ~stray, SK!Unlock(t) PROVE LocksInv'
  <2>1. skPc' \in [Threads -> SK!Steps] /\ SpinInv'
    <3>1. PICK to \in {"idle", "wrdrop"} : skPc' = [skPc EXCEPT ![t] = to]
      BY <1>12 DEF SK!Unlock
    <3>2. skPc[t] \in {"reading", "writing"} /\ UNCHANGED <<spin, spinOwner>>
      BY <1>12 DEF SK!Unlock
    <3> QED
      BY <3>1, <3>2
  <2>2. CASE owner = Nobody
    BY <1>12, <2>1, <2>2 DEF SK!Unlock
  <2>3. CASE owner # Nobody /\ skPc[t] = "reading"
    \* A writer would have the lock for itself, so no thread has written the owner.
    <3>1. unset
      BY <1>12, <2>3
    <3> QED
      BY <1>12, <2>1, <2>3, <3>1 DEF SK!Unlock
  <2>4. CASE owner # Nobody /\ skPc[t] = "writing"
    BY <1>12, <2>1, <2>4 DEF SK!Unlock
  <2> QED
    BY <1>12, <2>2, <2>3, <2>4 DEF SK!Unlock
<1>13. ASSUME NEW t \in Threads, SK!WrDrop(t) PROVE LocksInv'
  BY <1>13 DEF SK!WrDrop
<1>14. CASE UNCHANGED SK!vars
  BY <1>14 DEF SK!vars
<1> QED
  BY <1>1, <1>2, <1>3, <1>4, <1>5, <1>6, <1>7, <1>8, <1>9, <1>10, <1>11, <1>12, <1>13, <1>14
     DEF SK!Next

LEMMA LocksInit == ASSUME SK!Init PROVE LocksInv
BY DEF SK!Init, SK!SpinInit, SK!RwInit, LocksInv, SpinInv, SlimInv, HasSpin, Writes, SK!Steps

LEMMA LocksAssert == ASSUME LocksInv, Nobody \notin Threads PROVE SK!Asserts
<1> USE DEF LocksInv, SpinInv, SlimInv, HasSpin, Writes, SK!At
<1>1. SK!Exclusive
  BY DEF SK!Exclusive
<1>2. SK!OwnerRight
  BY DEF SK!OwnerRight
<1> QED
  BY <1>1, <1>2 DEF SK!Asserts

-----------------------------------------------------------------------------
(* SThread.                                                                *)

\* The steps of the thread before it may have freed its instance.
Using == {"none", "runs", "returned", "unattached", "unjoined", "frees"}

\* What there is of an instance, by where its thread is;
InstanceInv ==
  /\ thread \in Using => allocated
  /\ thread \in {"returned", "unattached"} => ret
  /\ allocated /\ thread \in {"exits", "over"} => ret
  /\ quick => thread \in {"unattached", "frees", "exits", "over"}
  /\ wild => quick

\* and by where its creator is: it may be gone only for a thread that was quick, until it is
\* joined or has no handle any more.
CreatorInv ==
  /\ caller = "create" => thread = "none"
  /\ caller \in {"create", "assign"} => ~handle
  /\ caller \in {"drop", "made", "join", "wait", "take"} => (handle <=> thread # "none")
  /\ caller \in {"create", "assign", "drop", "made", "join"} => ~joining
  /\ caller \notin {"done", "lost"} /\ ~quick => allocated /\ thread \notin {"unattached", "frees"}
  /\ caller = "take" => allocated /\ thread = "over"
  /\ caller = "done" /\ thread \in Using => thread = "none" \/ (~handle /\ ~joining)
  /\ caller = "done" /\ allocated /\ thread \in {"exits", "over"} => late

ResultInv ==
  /\ result # "no value"
  /\ result = "value" => caller = "done" /\ ~allocated /\ ~open /\ thread = "over"
  /\ result = "ESRCH" => caller = "done" /\ thread = "none"

ThreadTypes ==
  /\ caller \in ST!CallerSteps /\ thread \in ST!ThreadSteps
  /\ detached \in BOOLEAN /\ allocated \in BOOLEAN /\ handle \in BOOLEAN /\ joining \in BOOLEAN
  /\ ret \in BOOLEAN /\ open \in BOOLEAN /\ quick \in BOOLEAN /\ wild \in BOOLEAN

ThreadInv == ThreadTypes /\ InstanceInv /\ CreatorInv /\ ResultInv

LEMMA ThreadStays == ASSUME ThreadInv, UNCHANGED ST!vars PROVE ThreadInv'
<1>1. ThreadTypes'
  BY DEF ST!vars, ThreadInv, ThreadTypes
<1>2. InstanceInv'
  BY Zenon DEF ST!vars, ThreadInv, InstanceInv
<1>3. CreatorInv'
  BY Zenon DEF ST!vars, ThreadInv, CreatorInv
<1>4. ResultInv'
  BY Zenon DEF ST!vars, ThreadInv, ResultInv
<1> QED
  BY <1>1, <1>2, <1>3, <1>4 DEF ThreadInv

LEMMA DetachStep == ASSUME ThreadInv, ST!Detach PROVE ThreadInv'
<1>1. /\ caller = "made" /\ caller' = "done"
      /\ UNCHANGED <<thread, detached, allocated, joining, ret, quick, wild>>
  BY DEF ST!Detach, ST!Goto
<1>2. CASE handle
  <2>1. result' = "0" /\ handle' = FALSE /\ open' = FALSE /\ late' = (thread \in {"exits", "over"})
    BY <1>2, Zenon DEF ST!Detach
  <2>2. ThreadTypes'
    <3>1. handle' \in BOOLEAN /\ open' \in BOOLEAN
      BY <2>1, Zenon
    <3> QED
      BY <1>1, <3>1 DEF ThreadInv, ThreadTypes, ST!CallerSteps
  <2>3. InstanceInv'
    BY <1>1, Zenon DEF ThreadInv, InstanceInv, Using
  <2>4. CreatorInv'
    <3>1. ~handle' /\ (thread \in {"exits", "over"} => late')
      BY <2>1, Zenon
    <3>2. ~joining'
      BY <1>1 DEF ThreadInv, CreatorInv
    <3> QED
      BY <1>1, <3>1, <3>2 DEF CreatorInv
  <2>5. ResultInv'
    BY <2>1 DEF ResultInv
  <2> QED
    BY <2>2, <2>3, <2>4, <2>5 DEF ThreadInv
<1>3. CASE ~handle
  <2>1. result' = "EINVAL" /\ UNCHANGED <<handle, open, late>>
    BY <1>3, Zenon DEF ST!Detach
  <2>2. ThreadTypes'
    BY <1>1, <2>1 DEF ThreadInv, ThreadTypes, ST!CallerSteps
  <2>3. InstanceInv'
    BY <1>1, Zenon DEF ThreadInv, InstanceInv, Using
  <2>4. CreatorInv'
    <3>1. thread = "none"
      BY <1>1, <1>3 DEF ThreadInv, CreatorInv
    <3> QED
      BY <1>1, <2>1, <3>1 DEF CreatorInv
  <2>5. ResultInv'
    BY <2>1 DEF ResultInv
  <2> QED
    BY <2>2, <2>3, <2>4, <2>5 DEF ThreadInv
<1> QED
  BY <1>2, <1>3

LEMMA ThreadStep == ASSUME ThreadInv, [ST!Next]_ST!vars PROVE ThreadInv'
<1> USE DEF ThreadInv, ThreadTypes, InstanceInv, CreatorInv, ResultInv, Using, ST!CallerSteps,
   ST!ThreadSteps,
        ST!Goto, ST!Turn, ST!Uses, ST!instance
<1>1. CASE ST!Create
  BY <1>1 DEF ST!Create
<1>2. CASE ST!Assign
  BY <1>2 DEF ST!Assign
<1>3. CASE ST!Drop
  BY <1>3 DEF ST!Drop
<1>4. CASE ST!JoinLock
  BY <1>4 DEF ST!JoinLock
<1>5. CASE ST!Wait
  BY <1>5 DEF ST!Wait
<1>6. CASE ST!WaitFails
  BY <1>6 DEF ST!WaitFails
<1>7. CASE ST!Take
  BY <1>7 DEF ST!Take
<1>8. CASE ST!Lost
  BY <1>8 DEF ST!Lost
<1>9. CASE ST!Join
  BY <1>9 DEF ST!Join
<1>10. CASE ST!Detach
  BY <1>10, DetachStep
<1>11. CASE ST!Return
  BY <1>11 DEF ST!Return
<1>12. CASE ST!Look
  BY <1>12 DEF ST!Look
<1>13. CASE ST!FreeDetached
  BY <1>13 DEF ST!FreeDetached
<1>14. CASE ST!Exit
  BY <1>14 DEF ST!Exit
<1>15. CASE ST!ExitLook
  BY <1>15 DEF ST!ExitLook
<1>16. CASE ST!ExitFree
  BY <1>16 DEF ST!ExitFree
<1>17. CASE ST!ExitOver
  BY <1>17, ZenonT(40) DEF ST!ExitOver
<1>18. CASE UNCHANGED ST!vars
  BY <1>18, ThreadStays
<1> QED
  BY <1>1, <1>2, <1>3, <1>4, <1>5, <1>6, <1>7, <1>8, <1>9, <1>10, <1>11, <1>12, <1>13, <1>14,
     <1>15, <1>16, <1>17, <1>18, Zenon DEF ST!Next, ST!Calling, ST!Running

LEMMA ThreadInit == ASSUME ST!Init PROVE ThreadInv
BY DEF ST!Init, ThreadInv, ThreadTypes, InstanceInv, CreatorInv, ResultInv, Using,
   ST!CallerSteps, ST!ThreadSteps

LEMMA ThreadAsserts == ASSUME ThreadInv PROVE ST!Asserts /\ ST!Freed
BY DEF ThreadInv, InstanceInv, CreatorInv, ResultInv, Using, ST!Asserts, ST!Freed

-----------------------------------------------------------------------------
(* ServiceControl.                                                         *)

ControlTypes == mpc \in SC!MainAt /\ told \in {"", "init", "run", "flag", "final", "left"}

Beginning == {"start", "pending", "init", "run"}

\* What SetStatus() is about to report is of the step that ServiceMain() is at.
Telling ==
  told # "" => <<mpc, told>> \in {<<"pending", "init">>, <<"init", "run">>, <<"init", "final">>,
                                  <<"final", "left">>}

\* ServiceMain() has set the status to stopped for good, or was never told to set one.
AtEnd == mpc \in {"final", "left"} \/ (mpc = "init" /\ told = "final")

\* The handler runs after the first report, and SERVICE_STOPPED is reported at the end only.
Reported ==
  /\ console => scm = "none" /\ told = "" /\ mpc \notin {"pending", "init", "run"}
                /\ hpc \in {"dispatch", "destroyed", "exited"}
  /\ scm # "none" \/ hpc \in {"stop", "stopping", "clear", "event", "report"} => mpc # "start"
  /\ scStatus = "stopped" /\ ~console => mpc = "start" \/ AtEnd
  /\ scm = "stopped" => AtEnd
  /\ hpc \in {"destroyed", "exited"} => AtEnd

\* A server is started once and awaited before the end, by a ServiceMain() that could tell
\* it to end and has a logger.
Awaited ==
  /\ mpc \in Beginning \cup {"initialise"} => server = "none"
  /\ mpc \in {"logger", "await logger"} \cup {"final", "left"} =>
       server \in {"none", "ended"} \/ deaf \/ ~logger

\* A STOP that finds the service running clears m_bIsRunning for good.
Cleared ==
  /\ running => mpc \notin Beginning
  /\ stopped => ~console
  /\ stopped /\ ~scEarly => mpc \notin Beginning
  /\ stopped /\ ~scEarly /\ hpc \notin {"stop", "stopping", "clear"} => ~running

ControlInv == ControlTypes /\ Telling /\ Reported /\ Awaited /\ Cleared

LEMMA ControlStep == ASSUME ControlInv, [SC!Next]_SC!vars PROVE ControlInv'
<1> USE DEF ControlInv, ControlTypes, Beginning, Telling, AtEnd, Reported, Awaited, Cleared,
   SC!MainAt,
        SC!Main, SC!Report, SC!SetStatus, SC!Handler, SC!modes, SC!history
<1>1. CASE SC!Tell
  BY <1>1 DEF SC!Tell
<1>2. CASE SC!Register
  BY <1>2 DEF SC!Register
<1>3. CASE SC!Pending
  BY <1>3 DEF SC!Pending
<1>4. CASE SC!OnInit
  BY <1>4 DEF SC!OnInit
<1>5. CASE SC!SetRunning
  BY <1>5 DEF SC!SetRunning
<1>6. CASE SC!ConsoleStart
  BY <1>6 DEF SC!ConsoleStart
<1>7. CASE SC!Initialise
  BY <1>7 DEF SC!Initialise
<1>8. CASE SC!Wait
  BY <1>8 DEF SC!Wait
<1>9. CASE SC!Shutdown
  BY <1>9 DEF SC!Shutdown
<1>10. CASE SC!AwaitServer
  BY <1>10 DEF SC!AwaitServer
<1>11. CASE SC!StopLogger
  BY <1>11 DEF SC!StopLogger
<1>12. CASE SC!AwaitLogger
  BY <1>12 DEF SC!AwaitLogger
<1>13. CASE SC!Final
  BY <1>13 DEF SC!Final
<1>14. CASE SC!ConsoleEnd
  BY <1>14 DEF SC!ConsoleEnd
<1>15. CASE SC!StopPending
  BY <1>15 DEF SC!StopPending
<1>16. CASE SC!TellPending
  BY <1>16 DEF SC!TellPending
<1>17. CASE SC!ClearRunning
  BY <1>17 DEF SC!ClearRunning
<1>18. CASE SC!SetStopEvent
  BY <1>18 DEF SC!SetStopEvent
<1>19. CASE SC!TellStatus
  BY <1>19 DEF SC!TellStatus
<1>20. CASE SC!Destroy
  BY <1>20 DEF SC!Destroy
<1>21. CASE SC!Exit
  BY <1>21 DEF SC!Exit
<1>22. CASE SC!Stop
  BY <1>22 DEF SC!Stop
<1>23. CASE SC!Interrogate
  BY <1>23 DEF SC!Interrogate
<1>24. CASE SC!SignalPipe
  BY <1>24 DEF SC!SignalPipe
<1>25. CASE SC!ServerStops
  BY <1>25 DEF SC!ServerStops
<1>26. CASE SC!ServerFails
  BY <1>26 DEF SC!ServerFails
<1>27. CASE SC!LoggerEnds
  BY <1>27 DEF SC!LoggerEnds
<1>28. CASE UNCHANGED SC!vars
  BY <1>28 DEF SC!vars
<1> QED
  BY <1>1, <1>2, <1>3, <1>4, <1>5, <1>6, <1>7, <1>8, <1>9, <1>10, <1>11, <1>12, <1>13, <1>14,
     <1>15, <1>16, <1>17, <1>18, <1>19, <1>20, <1>21, <1>22, <1>23, <1>24, <1>25, <1>26, <1>27,
     <1>28, Zenon DEF SC!Next, SC!ServiceMain, SC!Dispatcher

LEMMA ControlInit == ASSUME SC!Init PROVE ControlInv
BY DEF SC!Init, ControlInv, ControlTypes, Beginning, Telling, AtEnd, Reported, Awaited, Cleared,
   SC!MainAt

LEMMA ControlClean == ASSUME ControlInv PROVE CleanExit
BY DEF ControlInv, AtEnd, Beginning, Reported, Awaited, Cleared, CleanExit, SC!CleanExit

-----------------------------------------------------------------------------
(* ServiceLog: what is left in the streams.  (What their lines are is a    *)
(* matter of folds over text, and left to TLC.)                            *)

\* The endpoints: the one that is set up next is the only one that was created, and a stream
\* is opened on an instance that there is.
EndpointInv ==
  /\ ep \in [SL!Instances -> {"none", "created", "connect", "reading", "ready", "deaf"}]
  /\ slOpened \in 0 .. 2 /\ created \in 0 .. 3
  /\ \A i \in SL!Instances : ep[i] = "created" => created = i
  /\ \A s \in 1 .. slOpened : ep[s] # "none"

\* The logger ends after the stop, with nothing left to set up, and the stop comes when the
\* streams are open, and after a server that has ended when it is clean.
LeavingInv ==
  /\ ~slLogging => created = 0
  /\ terminate \/ ~slLogging => slStop # "no"
  /\ slStop # "no" => ~opening
  /\ slStop = "clean" => ended

StreamsInv == EndpointInv /\ LeavingInv /\ SL!Drained

LEMMA StreamsInit == ASSUME SL!Init PROVE StreamsInv
<1>1. EndpointInv
  BY DEF SL!Init, EndpointInv, SL!Instances, SL!Streams
<1>2. LeavingInv /\ SL!Drained
  BY DEF SL!Init, LeavingInv, SL!Drained
<1> QED
  BY <1>1, <1>2 DEF StreamsInv

LEMMA StreamsStep == ASSUME StreamsInv, [SL!Next]_SL!vars PROVE StreamsInv'
<1> USE DEF StreamsInv, SL!initVars, SL!endpoint, SL!text
<1>1. ASSUME UNCHANGED <<slOpened, opening, slLogging, created, ep, slStop>>,
             ended => UNCHANGED ended, slLogging \/ UNCHANGED slPipe,
             terminate' => terminate \/ slStop # "no"
      PROVE  StreamsInv'
  BY <1>1 DEF EndpointInv, LeavingInv, SL!Drained
<1>2. CASE SL!Open
  <2>1. opening /\ slOpened < 2 /\ ep[slOpened + 1] \in {"created", "connect"}
        /\ slOpened' = slOpened + 1
        /\ UNCHANGED <<slPipe, ended, slStop, slLogging, created, terminate, ep>>
    BY <1>2 DEF SL!Open
  <2>2. EndpointInv'
    BY <2>1 DEF EndpointInv
  <2>3. slStop = "no" /\ slLogging
    BY <2>1 DEF LeavingInv
  <2> QED
    BY <2>1, <2>2, <2>3 DEF LeavingInv, SL!Drained
<1>3. CASE SL!GiveUp
  BY <1>3 DEF SL!GiveUp, EndpointInv, LeavingInv, SL!Drained
<1>4. ASSUME NEW s \in SL!Streams, NEW c \in {"x", "n"}, SL!Put(s, c) PROVE StreamsInv'
  <2>1. ~ended
        /\ UNCHANGED <<slOpened, opening, slLogging, created, terminate, ep, slStop, ended>>
    BY <1>4 DEF SL!Put, SL!CanPut
  <2>2. EndpointInv' /\ LeavingInv'
    BY <2>1 DEF EndpointInv, LeavingInv
  <2>3. SL!Drained'
    BY <2>1 DEF LeavingInv, SL!Drained
  <2> QED
    BY <2>2, <2>3
<1>5. CASE SL!End
  BY <1>5 DEF SL!End, EndpointInv, LeavingInv, SL!Drained
<1>6. CASE SL!Stop
  BY <1>6 DEF SL!Stop, EndpointInv, LeavingInv, SL!Drained
<1>7. CASE SL!Setup
  <2>1. created # 0 /\ created' = 0
        /\ UNCHANGED <<slOpened, opening, slPipe, ended, slStop, slLogging, terminate>>
    BY <1>7 DEF SL!Setup
  <2>2. PICK state \in {"connect", "ready", "deaf"} : ep' = [ep EXCEPT ![created] = state]
    BY <1>7 DEF SL!Setup
  <2>3. EndpointInv'
    BY <2>1, <2>2 DEF EndpointInv, SL!Instances, SL!Streams
  <2> QED
    BY <2>1, <2>3 DEF LeavingInv, SL!Drained
<1>8. ASSUME NEW i \in SL!Streams, SL!Connected(i) \/ SL!Unexpected(i) PROVE StreamsInv'
  <2>1. slLogging /\ created = 0
        /\ UNCHANGED <<slOpened, opening, ended, slStop, slLogging, terminate>>
    BY <1>8 DEF SL!Connected, SL!Unexpected, SL!Polls
  <2>2. EndpointInv'
    BY <1>8, <2>1 DEF SL!Connected, SL!Unexpected, EndpointInv, SL!Instances, SL!Streams
  <2> QED
    BY <2>1, <2>2 DEF LeavingInv, SL!Drained
<1>9. ASSUME NEW s \in SL!Streams, SL!ReadSome(s) PROVE StreamsInv'
  <2>1. PICK n \in 1 .. Size : SL!Read(s, n)
    BY <1>9 DEF SL!ReadSome
  <2> QED
    BY <1>1, <2>1 DEF SL!Read, SL!Polls
<1>10. CASE SL!StopSeen
  BY <1>1, <1>10 DEF SL!StopSeen
<1>11. CASE SL!Leave
  <2>1. SL!Drained'
    <3> SUFFICES ASSUME NEW s \in 1 .. slOpened PROVE slPipe[s] = <<>> \/ ep[s] = "deaf"
      BY <1>11 DEF SL!Leave, SL!Drained
    <3>1. s \in SL!Streams /\ s \in SL!Instances /\ ep[s] \notin {"none", "created"}
      BY <1>11 DEF SL!Leave, EndpointInv, SL!Polls, SL!Streams, SL!Instances
    <3>2. ep[s] \in {"connect", "reading", "ready", "deaf"}
      BY <3>1 DEF EndpointInv
    <3> QED
      BY <1>11, <3>1, <3>2 DEF SL!Leave, SL!Pending, EndpointInv
  <2> QED
    BY <1>11, <2>1 DEF SL!Leave, EndpointInv, LeavingInv, SL!Polls
<1>12. CASE UNCHANGED SL!vars
  BY <1>1, <1>12 DEF SL!vars
<1> QED
  BY <1>2, <1>3, <1>4, <1>5, <1>6, <1>7, <1>8, <1>9, <1>10, <1>11, <1>12 DEF SL!Next

-----------------------------------------------------------------------------
(* Induction over the numbers, by the least one that is not in a set.      *)

\* Induction, for a set of numbers.
LEMMA AllNumbers ==
  ASSUME NEW S \in SUBSET Nat, 0 \in S, \A n \in S : n + 1 \in S
  PROVE  \A n \in Nat : n \in S
<1> SUFFICES ASSUME Nat \ S # {} PROVE FALSE
  OBVIOUS
<1>1. PICK m \in Nat \ S : \A n \in Nat \ S : <<n, m>> \notin OpToRel(<, Nat)
  BY WFMin, NatLessThanWellFounded, Zenon
<1>2. \A n \in Nat \ S : ~(n < m)
  BY <1>1, Zenon DEF OpToRel
<1>3. m # 0 /\ m - 1 \in Nat
  OBVIOUS
<1>4. m - 1 \in S
  BY <1>2, <1>3
<1>5. (m - 1) + 1 \in S
  BY <1>4
<1> QED
  BY <1>3, <1>5

\* A recursion over the numbers up to n defines a function.
LEMMA Recursion ==
  ASSUME NEW S, NEW base \in S, NEW l \in Nat, NEW F \in [1 .. l -> [S -> S]]
  PROVE  \E g \in [0 .. l -> S] : g[0] = base /\ \A n \in 1 .. l : g[n] = F[n][g[n - 1]]
<1> DEFINE Up(m) == \E g \in [0 .. m -> S] : g[0] = base /\ \A n \in 1 .. m : g[n] = F[n][g[n - 1]]
           M == {m \in Nat : m <= l => Up(m)}
<1>1. 0 \in M
  <2>1. [i \in 0 .. 0 |-> base] \in [0 .. 0 -> S] /\ [i \in 0 .. 0 |-> base][0] = base
    OBVIOUS
  <2>2. \A n \in 1 .. 0 : FALSE
    OBVIOUS
  <2>3. Up(0)
    <3> SUFFICES \E g \in [0 .. 0 -> S] : g[0] = base /\ \A n \in 1 .. 0 : g[n] = F[n][g[n - 1]]
      OBVIOUS
    <3> WITNESS [i \in 0 .. 0 |-> base] \in [0 .. 0 -> S]
    <3> QED
      BY <2>1, <2>2
  <2> QED
    BY <2>3
<1>2. ASSUME NEW m \in M PROVE m + 1 \in M
  <2> SUFFICES ASSUME m + 1 <= l PROVE Up(m + 1)
    OBVIOUS
  <2>1. m \in Nat /\ Up(m)
    OBVIOUS
  <2>2. PICK g \in [0 .. m -> S] : g[0] = base /\ \A n \in 1 .. m : g[n] = F[n][g[n - 1]]
    BY <2>1
  <2> DEFINE f == [i \in 0 .. m + 1 |-> IF i <= m THEN g[i] ELSE F[m + 1][g[m]]]
  <2>3. m + 1 \in 1 .. l /\ F[m + 1] \in [S -> S] /\ g[m] \in S
    BY <2>1
  <2>4. f \in [0 .. m + 1 -> S] /\ f[0] = base
    BY <2>1, <2>2, <2>3
  <2>5. \A n \in 1 .. m + 1 : f[n] = F[n][f[n - 1]]
    BY <2>1, <2>2
  <2> QED
    BY <2>4, <2>5
<1>3. \A m \in Nat : m \in M
  <2>1. M \in SUBSET Nat
    OBVIOUS
  <2> HIDE DEF M
  <2> QED
    BY <1>1, <1>2, <2>1, AllNumbers
<1> QED
  BY <1>3

-----------------------------------------------------------------------------
(* ServiceLog: the log has the lines that were printed.                    *)

Found == [done : Seq(SL!Text), rest : SL!Text]

LEMMA NoLinesFound == SL!NoLines \in Found
BY DEF SL!NoLines, Found, SL!Text

LEMMA FoundRun ==
  ASSUME NEW l \in Nat, NEW F \in [1 .. l -> [Found -> Found]]
  PROVE  \E g \in [0 .. l -> Found] :
           g[0] = SL!NoLines /\ \A n \in 1 .. l : g[n] = F[n][g[n - 1]]
BY NoLinesFound, Recursion

LEMMA ScanType == ASSUME NEW a \in Found, NEW c \in {"x", "n"} PROVE SL!Scan(a, c) \in Found
<1>1. a.done \in Seq(SL!Text) /\ a.rest \in SL!Text
  BY DEF Found
<1>2. Append(a.rest, c) \in SL!Text /\ Append(a.done, a.rest) \in Seq(SL!Text) /\ <<>> \in SL!Text
  BY <1>1 DEF SL!Text
<1> QED
  BY <1>1, <1>2 DEF Found, SL!Scan, SL!Closed

LEMMA CutAtType == ASSUME NEW a \in Found, NEW c \in {"x", "n"} PROVE SL!CutAt(a, c) \in Found
<1>1. a.done \in Seq(SL!Text) /\ a.rest \in SL!Text
  BY DEF Found
<1>2. Append(a.rest, c) \in SL!Text /\ Append(a.done, a.rest) \in Seq(SL!Text) /\ <<>> \in SL!Text
      /\ Append(a.done, Append(a.rest, c)) \in Seq(SL!Text)
  BY <1>1 DEF SL!Text
<1> QED
  BY <1>1, <1>2 DEF Found, SL!CutAt

LEMMA ScanIs ==
  ASSUME NEW t \in SL!Text, NEW f, f[0] = SL!NoLines,
         \A n \in 1 .. Len(t) : f[n] = SL!Scan(f[n - 1], t[n])
  PROVE  SL!Lines(t) = f[Len(t)]
<1> DEFINE l == Len(t)
           E(h) == h = [n \in 0 .. l |-> IF n = 0 THEN SL!NoLines ELSE SL!Scan(h[n - 1], t[n])]
           g == [n \in 0 .. l |-> f[n]]
           c == CHOOSE h : E(h)
<1>1. l \in Nat
  BY DEF SL!Text
<1>2. E(g)
  <2>1. \A n \in 0 .. l : g[n] = IF n = 0 THEN SL!NoLines ELSE SL!Scan(g[n - 1], t[n])
    BY <1>1
  <2> HIDE DEF l
  <2> QED
    BY <2>1
<1>3. E(c)
  <2> HIDE DEF E, g
  <2> QED
    BY <1>2, Zenon
<1>4. SL!Lines(t) = c[l]
  BY Zenon DEF SL!Lines
<1> HIDE DEF c
<1>5. \A n \in 0 .. l : c[n] = IF n = 0 THEN SL!NoLines ELSE SL!Scan(c[n - 1], t[n])
  <2> HIDE DEF l
  <2> QED
    BY <1>3
<1> DEFINE M == {m \in Nat : m <= l => c[m] = f[m]}
<1>6. M \in SUBSET Nat /\ 0 \in M
  BY <1>1, <1>5
<1>7. ASSUME NEW m \in M PROVE m + 1 \in M
  <2> SUFFICES ASSUME m + 1 <= l PROVE c[m + 1] = f[m + 1]
    OBVIOUS
  <2>1. c[m] = f[m] /\ m + 1 \in 1 .. l /\ m + 1 \in 0 .. l /\ m + 1 # 0 /\ (m + 1) - 1 = m
    BY <1>1
  <2> QED
    BY <1>5, <2>1
<1>8. \A m \in Nat : m \in M
  <2> HIDE DEF M
  <2> QED
    BY <1>6, <1>7, AllNumbers
<1> QED
  BY <1>1, <1>4, <1>8

LEMMA ScanRun ==
  ASSUME NEW t \in SL!Text
  PROVE  \E f \in [0 .. Len(t) -> Found] :
           f[0] = SL!NoLines /\ \A n \in 1 .. Len(t) : f[n] = SL!Scan(f[n - 1], t[n])
<1> DEFINE F == [n \in 1 .. Len(t) |-> [a \in Found |-> SL!Scan(a, t[n])]]
<1>1. Len(t) \in Nat /\ \A n \in 1 .. Len(t) : t[n] \in {"x", "n"}
  BY DEF SL!Text
<1>2. F \in [1 .. Len(t) -> [Found -> Found]]
  BY <1>1, ScanType
<1>3. PICK f \in [0 .. Len(t) -> Found] :
        f[0] = SL!NoLines /\ \A n \in 1 .. Len(t) : f[n] = F[n][f[n - 1]]
  <2> HIDE DEF F
  <2> QED
    BY <1>1, <1>2, FoundRun
<1>4. \A n \in 1 .. Len(t) : f[n] = SL!Scan(f[n - 1], t[n])
  <2> TAKE n \in 1 .. Len(t)
  <2>1. f[n - 1] \in Found
    BY <1>1, <1>3
  <2> QED
    BY <1>3, <2>1
<1> QED
  BY <1>3, <1>4

LEMMA CutAtIs ==
  ASSUME NEW t \in SL!Text, NEW f, f[0] = SL!NoLines,
         \A n \in 1 .. Len(t) : f[n] = SL!CutAt(f[n - 1], t[n])
  PROVE  SL!Cut(t) = f[Len(t)]
<1> DEFINE l == Len(t)
           E(h) == h = [n \in 0 .. l |-> IF n = 0 THEN SL!NoLines ELSE SL!CutAt(h[n - 1], t[n])]
           g == [n \in 0 .. l |-> f[n]]
           c == CHOOSE h : E(h)
<1>1. l \in Nat
  BY DEF SL!Text
<1>2. E(g)
  <2>1. \A n \in 0 .. l : g[n] = IF n = 0 THEN SL!NoLines ELSE SL!CutAt(g[n - 1], t[n])
    BY <1>1
  <2> HIDE DEF l
  <2> QED
    BY <2>1
<1>3. E(c)
  <2> HIDE DEF E, g
  <2> QED
    BY <1>2, Zenon
<1>4. SL!Cut(t) = c[l]
  BY Zenon DEF SL!Cut
<1> HIDE DEF c
<1>5. \A n \in 0 .. l : c[n] = IF n = 0 THEN SL!NoLines ELSE SL!CutAt(c[n - 1], t[n])
  <2> HIDE DEF l
  <2> QED
    BY <1>3
<1> DEFINE M == {m \in Nat : m <= l => c[m] = f[m]}
<1>6. M \in SUBSET Nat /\ 0 \in M
  BY <1>1, <1>5
<1>7. ASSUME NEW m \in M PROVE m + 1 \in M
  <2> SUFFICES ASSUME m + 1 <= l PROVE c[m + 1] = f[m + 1]
    OBVIOUS
  <2>1. c[m] = f[m] /\ m + 1 \in 1 .. l /\ m + 1 \in 0 .. l /\ m + 1 # 0 /\ (m + 1) - 1 = m
    BY <1>1
  <2> QED
    BY <1>5, <2>1
<1>8. \A m \in Nat : m \in M
  <2> HIDE DEF M
  <2> QED
    BY <1>6, <1>7, AllNumbers
<1> QED
  BY <1>1, <1>4, <1>8

LEMMA CutAtRun ==
  ASSUME NEW t \in SL!Text
  PROVE  \E f \in [0 .. Len(t) -> Found] :
           f[0] = SL!NoLines /\ \A n \in 1 .. Len(t) : f[n] = SL!CutAt(f[n - 1], t[n])
<1> DEFINE F == [n \in 1 .. Len(t) |-> [a \in Found |-> SL!CutAt(a, t[n])]]
<1>1. Len(t) \in Nat /\ \A n \in 1 .. Len(t) : t[n] \in {"x", "n"}
  BY DEF SL!Text
<1>2. F \in [1 .. Len(t) -> [Found -> Found]]
  BY <1>1, CutAtType
<1>3. PICK f \in [0 .. Len(t) -> Found] :
        f[0] = SL!NoLines /\ \A n \in 1 .. Len(t) : f[n] = F[n][f[n - 1]]
  <2> HIDE DEF F
  <2> QED
    BY <1>1, <1>2, FoundRun
<1>4. \A n \in 1 .. Len(t) : f[n] = SL!CutAt(f[n - 1], t[n])
  <2> TAKE n \in 1 .. Len(t)
  <2>1. f[n - 1] \in Found
    BY <1>1, <1>3
  <2> QED
    BY <1>3, <2>1
<1> QED
  BY <1>3, <1>4

\* What a text grows to as it is read.
LEMMA PrefixGrows ==
  ASSUME NEW s \in SL!Text, NEW t \in SL!Text, NEW j \in 0 .. Len(t)
  PROVE  /\ s \o SubSeq(t, 1, j) \in SL!Text /\ Len(s \o SubSeq(t, 1, j)) = Len(s) + j
         /\ j = 0 => s \o SubSeq(t, 1, j) = s
         /\ j = Len(t) => s \o SubSeq(t, 1, j) = s \o t
         /\ j < Len(t) => Append(s \o SubSeq(t, 1, j), t[j + 1]) = s \o SubSeq(t, 1, j + 1)
<1> DEFINE a == SubSeq(t, 1, j)
<1>1. /\ a \in SL!Text /\ Len(a) = j /\ \A i \in 1 .. j : a[i] = t[i]
  BY DEF SL!Text
<1>2. s \o a \in SL!Text /\ Len(s \o a) = Len(s) + j
  BY <1>1, ConcatProperties DEF SL!Text
<1>3. ASSUME j = 0 PROVE s \o a = s
  BY <1>1, <1>3 DEF SL!Text
<1>4. ASSUME j = Len(t) PROVE a = t
  BY <1>1, <1>4 DEF SL!Text
<1>5. ASSUME j < Len(t) PROVE Append(s \o a, t[j + 1]) = s \o SubSeq(t, 1, j + 1)
  <2> DEFINE b == SubSeq(t, 1, j + 1)
             x == t[j + 1]
  <2>1. b \in SL!Text /\ Len(b) = j + 1 /\ (\A i \in 1 .. j + 1 : b[i] = t[i]) /\ x \in {"x", "n"}
    BY <1>5 DEF SL!Text
  <2>2. b[j + 1] = x /\ \A i \in 1 .. j : b[i] = a[i]
    BY <1>1, <2>1
  <2> HIDE DEF a, b, x
  <2>3. b = Append(a, x)
    BY <1>1, <2>1, <2>2 DEF SL!Text
  <2>4. Append(s \o a, x) = s \o Append(a, x)
    <3> DEFINE T == {"x", "n"}
    <3>1. s \in Seq(T) /\ a \in Seq(T) /\ x \in T
      BY <1>1, <2>1 DEF SL!Text
    <3> HIDE DEF T
    <3>2. s \o a \in Seq(T) /\ <<x>> \in Seq(T)
      BY <3>1, ConcatProperties
    <3>3. Append(s \o a, x) = (s \o a) \o <<x>>
      BY <3>1, <3>2, AppendIsConcat
    <3>4. Append(a, x) = a \o <<x>>
      BY <3>1, AppendIsConcat
    <3>5. (s \o a) \o <<x>> = s \o (a \o <<x>>)
      BY <3>1, <3>2, ConcatAssociative
    <3> QED
      BY <3>3, <3>4, <3>5
  <2> QED
    BY <2>3, <2>4 DEF a, b, x
<1> QED
  BY <1>2, <1>3, <1>4, <1>5

\* What is cut while no newline is read: nothing until the buffer is full.
LEMMA CutPlain ==
  ASSUME SL!Sound, NEW d \in Seq(SL!Text), NEW b \in SL!Text, NEW t \in SL!Text,
         Len(b) < Size, Len(b) + Len(t) <= Size, \A i \in 1 .. Len(t) : t[i] # "n",
         NEW f, f[0] = [done |-> d, rest |-> b],
         \A i \in 1 .. Len(t) : f[i] = SL!CutAt(f[i - 1], t[i])
  PROVE  f[Len(t)] = IF Len(b) + Len(t) = Size THEN [done |-> Append(d, b \o t), rest |-> <<>>]
                     ELSE [done |-> d, rest |-> b \o t]
<1> DEFINE P(j) == b \o SubSeq(t, 1, j)
           k == Len(b)
           l == Len(t)
           M == {j \in Nat : j <= l /\ k + j < Size => f[j] = [done |-> d, rest |-> P(j)]}
<1>1. k \in Nat /\ l \in Nat /\ Size \in Nat
  BY DEF SL!Text, SL!Sound
<1>2. ASSUME NEW j \in 0 .. l
      PROVE  /\ P(j) \in SL!Text /\ Len(P(j)) = k + j
             /\ j = 0 => P(j) = b
             /\ j = l => P(j) = b \o t
             /\ j < l => Append(P(j), t[j + 1]) = P(j + 1)
  BY PrefixGrows
<1>3. 0 \in 0 .. l /\ l \in 0 .. l
  BY <1>1
<1>4. k < Size /\ k + l <= Size
  OBVIOUS
<1> HIDE DEF P, k, l
<1>5. M \in SUBSET Nat /\ 0 \in M
  BY <1>2, <1>3
<1>6. ASSUME NEW j \in Nat, j < l, f[j] = [done |-> d, rest |-> P(j)]
      PROVE  f[j + 1] = IF k + (j + 1) = Size THEN [done |-> Append(d, P(j + 1)), rest |-> <<>>]
                        ELSE [done |-> d, rest |-> P(j + 1)]
  <2>1. j + 1 \in 1 .. l /\ (j + 1) - 1 = j /\ j \in 0 .. l /\ j + 1 \in 0 .. l
    BY <1>1, <1>6
  <2>2. f[j + 1] = SL!CutAt(f[(j + 1) - 1], t[j + 1]) /\ t[j + 1] # "n"
    BY <2>1 DEF l
  <2>3. Append(P(j), t[j + 1]) = P(j + 1)
    BY <1>2, <1>6, <2>1
  <2>4. Len(P(j + 1)) = k + (j + 1)
    BY <1>2, <2>1
  <2>5. f[j].rest = P(j) /\ f[j].done = d
    BY <1>6
  <2>6. f[(j + 1) - 1] = f[j]
    BY <2>1
  <2> HIDE DEF M
  <2> QED
    BY <2>2, <2>3, <2>4, <2>5, <2>6 DEF SL!CutAt
<1>7. ASSUME NEW j \in M PROVE j + 1 \in M
  <2>1. j \in Nat /\ j + 1 \in Nat
    BY <1>5
  <2>2. ASSUME j + 1 <= l, k + (j + 1) < Size PROVE f[j + 1] = [done |-> d, rest |-> P(j + 1)]
    <3>1. j < l /\ k + j < Size /\ j <= l /\ k + (j + 1) # Size
      BY <1>1, <2>1, <2>2
    <3>2. f[j] = [done |-> d, rest |-> P(j)]
      BY <3>1
    <3> QED
      BY <1>6, <2>1, <3>1, <3>2
  <2> QED
    BY <2>1, <2>2
<1>8. \A j \in Nat : j \in M
  <2> HIDE DEF M
  <2> QED
    BY <1>5, <1>7, AllNumbers
<1>9. CASE k + l < Size
  <2>1. l \in M /\ l <= l /\ k + l # Size
    BY <1>1, <1>8, <1>9
  <2>2. f[l] = [done |-> d, rest |-> P(l)] /\ P(l) = b \o t
    BY <1>2, <1>3, <1>9, <2>1
  <2> QED
    BY <2>1, <2>2 DEF k, l
<1>10. CASE k + l = Size
  <2>1. l - 1 \in Nat /\ l - 1 < l /\ l - 1 <= l /\ k + (l - 1) < Size /\ (l - 1) + 1 = l
    BY <1>1, <1>4, <1>10
  <2>2. l - 1 \in M
    BY <1>8, <2>1
  <2>3. f[l - 1] = [done |-> d, rest |-> P(l - 1)]
    BY <2>1, <2>2
  <2> HIDE DEF M
  <2>4. f[l] = IF k + l = Size THEN [done |-> Append(d, P(l)), rest |-> <<>>]
               ELSE [done |-> d, rest |-> P(l)]
    <3>1. f[(l - 1) + 1] = IF k + ((l - 1) + 1) = Size THEN [done |-> Append(d, P((l - 1) + 1)), rest |-> <<>>]
                           ELSE [done |-> d, rest |-> P((l - 1) + 1)]
      BY <1>6, <2>1, <2>3
    <3> QED
      BY <2>1, <3>1
  <2>5. P(l) = b \o t
    BY <1>2, <1>3
  <2> QED
    BY <1>10, <2>4, <2>5 DEF k, l
<1>11. k + l < Size \/ k + l = Size
  BY <1>1, <1>4
<1> QED
  BY <1>9, <1>10, <1>11

Plain(t) == \A i \in 1 .. Len(t) : t[i] # "n"

LEMMA CutClosed ==
  ASSUME NEW d \in Seq(SL!Text), NEW a \in Found, NEW found, found = [done |-> d \o a.done, rest |-> a.rest]
  PROVE  SL!CutAt(found, "n") = [done |-> d \o SL!Closed(a), rest |-> <<>>]
<1> DEFINE T == SL!Text
           h == a.done
           e == a.rest
           y == d \o h
<1>1. d \in Seq(T) /\ h \in Seq(T) /\ e \in T
  BY DEF Found
<1>2. found = [done |-> y, rest |-> e]
  OBVIOUS
<1> HIDE DEF T, h, e
<1>3. y \in Seq(T) /\ <<e>> \in Seq(T)
  BY <1>1, ConcatProperties
<1>4. Append(y, e) = y \o <<e>>
  BY <1>1, <1>3, AppendIsConcat
<1>5. Append(h, e) = h \o <<e>>
  BY <1>1, AppendIsConcat
<1>6. y \o <<e>> = d \o (h \o <<e>>)
  BY <1>1, <1>3, ConcatAssociative
<1>7. Append(y, e) = d \o Append(h, e)
  BY <1>4, <1>5, <1>6
<1> HIDE DEF y
<1>8. found.done = y /\ found.rest = e
  BY <1>2
<1>9. CASE e = <<>>
  <2>1. SL!CutAt(found, "n") = found /\ SL!Closed(a) = h
    BY <1>8, <1>9 DEF SL!CutAt, SL!Closed, h, e
  <2> QED
    BY <1>2, <1>9, <2>1 DEF y
<1>10. CASE e # <<>>
  <2>1. SL!CutAt(found, "n") = [done |-> Append(y, e), rest |-> <<>>] /\ SL!Closed(a) = Append(h, e)
    BY <1>8, <1>10 DEF SL!CutAt, SL!Closed, h, e
  <2> QED
    BY <1>7, <2>1
<1> QED
  BY <1>9, <1>10

Room(l, q, j) == IF j < q THEN l + j ELSE j - q

Fits(l, n, q, z) == l \in Nat /\ n \in Nat /\ z \in Nat /\ q \in 1 .. n /\ l < z /\ l + n <= z

LEMMA RoomGrows ==
  ASSUME NEW l, NEW n, NEW q, NEW z, Fits(l, n, q, z), NEW j \in Nat, j <= n
  PROVE  /\ Room(l, q, j) \in Nat /\ Room(l, q, j) < z
         /\ j + 1 # q => Room(l, q, j + 1) = Room(l, q, j) + 1
<1>1. CASE j < q
  BY <1>1 DEF Room, Fits
<1>2. CASE j >= q
  BY <1>2 DEF Room, Fits
<1> QED
  BY <1>1, <1>2 DEF Fits

\* What there is after the lines found, when there was d.
After(d, found) == [done |-> d \o found.done, rest |-> found.rest]

\* What is cut of a text, after what there was.
CutRun(f, d, b, t) ==
  /\ f[0] = [done |-> d, rest |-> b]
  /\ \A i \in 1 .. Len(t) : f[i] = SL!CutAt(f[i - 1], t[i])

\* What is cut when a newline is read, which leaves more room than there is text: the lines.
LEMMA CutLines ==
  ASSUME SL!Sound, NEW d \in Seq(SL!Text), NEW b \in SL!Text, NEW t \in SL!Text,
         Plain(b), Len(b) < Size, Len(b) + Len(t) <= Size, ~Plain(t), NEW f, CutRun(f, d, b, t)
  PROVE  LET r == SL!Lines(b \o t)
         IN  f[Len(t)] = After(d, r) /\ r \in Found /\ Plain(r.rest) /\ Len(r.rest) < Size
<1> SUFFICES ASSUME NEW q \in 1 .. Len(t), t[q] = "n", f[0] = [done |-> d, rest |-> b],
                    \A i \in 1 .. Len(t) : f[i] = SL!CutAt(f[i - 1], t[i])
             PROVE  LET r == SL!Lines(b \o t)
                    IN  f[Len(t)] = After(d, r) /\ r \in Found /\ Plain(r.rest) /\ Len(r.rest) < Size
  BY DEF Plain, CutRun
<1> DEFINE c == b \o t
           l == Len(b)
<1>1. /\ l \in Nat /\ Len(t) \in Nat /\ Size \in Nat /\ c \in SL!Text /\ Len(c) = l + Len(t)
      /\ \A i \in 1 .. l : c[i] = b[i]
      /\ \A i \in 1 .. Len(t) : c[l + i] = t[i]
  BY ConcatProperties DEF SL!Text, SL!Sound
<1> HIDE DEF c
<1>2. PICK g \in [0 .. Len(c) -> Found] :
        g[0] = SL!NoLines /\ \A n \in 1 .. Len(c) : g[n] = SL!Scan(g[n - 1], c[n])
  BY <1>1, ScanRun
<1>3. SL!Lines(c) = g[Len(c)]
  BY <1>1, <1>2, ScanIs
<1>4. g[l] = [done |-> <<>>, rest |-> b]
  <2> DEFINE P(j) == <<>> \o SubSeq(b, 1, j)
             M == {j \in Nat : j <= l => g[j] = [done |-> <<>>, rest |-> P(j)]}
  <2>1. \A j \in 0 .. l :
          /\ j = 0 => P(j) = <<>>
          /\ j = l => P(j) = <<>> \o b
          /\ j < l => Append(P(j), b[j + 1]) = P(j + 1)
    <3>1. <<>> \in SL!Text
      BY DEF SL!Text
    <3> QED
      BY <3>1, PrefixGrows, ZenonT(40)
  <2>2. P(l) = b
    BY <1>1, <2>1 DEF SL!Text
  <2> HIDE DEF P
  <2>3. M \in SUBSET Nat /\ 0 \in M
    BY <1>1, <1>2, <2>1 DEF SL!NoLines
  <2>4. ASSUME NEW j \in M PROVE j + 1 \in M
    <3> SUFFICES ASSUME j + 1 <= l PROVE g[j + 1] = [done |-> <<>>, rest |-> P(j + 1)]
      OBVIOUS
    <3>1. j + 1 \in 1 .. Len(c) /\ (j + 1) - 1 = j /\ j \in 0 .. l /\ j < l /\ j + 1 \in 1 .. l
      BY <1>1
    <3>2. g[j + 1] = SL!Scan(g[j], b[j + 1]) /\ b[j + 1] # "n"
      BY <1>1, <1>2, <3>1 DEF Plain
    <3>3. g[j] = [done |-> <<>>, rest |-> P(j)] /\ Append(P(j), b[j + 1]) = P(j + 1)
      BY <2>1, <3>1, SMTT(30)
    <3>4. g[j].done = <<>> /\ g[j].rest = P(j)
      BY <3>3
    <3> QED
      BY <3>2, <3>3, <3>4 DEF SL!Scan
  <2>5. \A j \in Nat : j \in M
    <3> HIDE DEF M
    <3> QED
      BY <2>3, <2>4, AllNumbers
  <2> QED
    BY <1>1, <2>2, <2>5
<1>5. l \in Nat /\ Len(t) \in Nat /\ Size \in Nat /\ l < Size /\ l + Len(t) <= Size /\ q \in 1 .. Len(t)
  BY <1>1
<1> HIDE DEF l
<1> DEFINE K(j) == /\ f[j] = [done |-> d \o g[l + j].done, rest |-> g[l + j].rest]
                   /\ Len(g[l + j].rest) <= Room(l, q, j) /\ Plain(g[l + j].rest)
           M == {j \in Nat : j <= Len(t) => K(j)}
<1>6. 0 \in M /\ M \in SUBSET Nat
  <2>1. l + 0 = l /\ d \o <<>> = d /\ Room(l, q, 0) = l
    BY <1>5 DEF Room
  <2>2. g[l + 0].done = <<>> /\ g[l + 0].rest = b
    BY <1>4, <2>1
  <2>3. Len(b) <= Room(l, q, 0)
    BY <1>5, <2>1 DEF l
  <2>4. K(0)
    BY <2>1, <2>2, <2>3
  <2> HIDE DEF K
  <2> QED
    BY <2>4
<1>7. ASSUME NEW j \in M PROVE j + 1 \in M
  <2> SUFFICES ASSUME j + 1 <= Len(t) PROVE K(j + 1)
    BY SMTT(30)
  <2> DEFINE a == g[l + j]
             x == t[j + 1]
  <2>1. j \in Nat /\ j <= Len(t) /\ K(j)
    BY <1>5
  <2> HIDE DEF M
  <2>2. /\ j + 1 \in 1 .. Len(t) /\ (j + 1) - 1 = j /\ l + j \in 0 .. Len(c)
        /\ l + (j + 1) \in 1 .. Len(c) /\ (l + (j + 1)) - 1 = l + j
    BY <1>1, <1>5, <2>1
  <2>3. a \in Found /\ x \in {"x", "n"}
    BY <1>2, <2>2 DEF SL!Text
  <2>4. f[j + 1] = SL!CutAt(f[j], x) /\ g[l + (j + 1)] = SL!Scan(a, x)
    <3>1. f[j + 1] = SL!CutAt(f[(j + 1) - 1], x)
      BY <2>2
    <3>2. g[l + (j + 1)] = SL!Scan(g[(l + (j + 1)) - 1], c[l + (j + 1)]) /\ c[l + (j + 1)] = x
      BY <1>1, <1>2, <2>2 DEF l
    <3> QED
      BY <2>2, <3>1, <3>2
  <2>5. a.done \in Seq(SL!Text) /\ a.rest \in SL!Text /\ Len(a.rest) \in Nat
    BY <2>3 DEF Found, SL!Text
  <2>6. f[j] = [done |-> d \o a.done, rest |-> a.rest] /\ Len(a.rest) <= Room(l, q, j) /\ Plain(a.rest)
    BY <2>1
  <2>13. Len(a.rest) <= Room(l, q, j)
    BY <2>6
  <2>7. j + 1 = q => x = "n"
    OBVIOUS
  <2>8. /\ Room(l, q, j + 1) \in Nat /\ Room(l, q, j + 1) < Size /\ Room(l, q, j) \in Nat
        /\ j + 1 # q => Room(l, q, j + 1) = Room(l, q, j) + 1
    <3> DEFINE n == Len(t)
    <3>1. Fits(l, n, q, Size)
      BY <1>5 DEF Fits
    <3>2. j \in Nat /\ j + 1 \in Nat /\ j <= n /\ j + 1 <= n
      BY <1>5, <2>1
    <3> HIDE DEF n, K
    <3> QED
      BY <3>1, <3>2, RoomGrows
  <2> HIDE DEF a, x, K
  <2> DEFINE r == SL!Scan(a, x)
  <2>9. ASSUME Len(r.rest) <= Room(l, q, j + 1), Plain(r.rest),
               SL!CutAt(f[j], x) = [done |-> d \o r.done, rest |-> r.rest]
        PROVE  K(j + 1)
    <3> HIDE DEF r
    <3>1. g[l + (j + 1)] = r
      BY <2>4 DEF r
    <3> QED
      BY <2>4, <2>9, <3>1 DEF K
  <2>10. f[j].done = d \o a.done /\ f[j].rest = a.rest
    <3> DEFINE y == d \o a.done
    <3> HIDE DEF y
    <3>1. f[j] = [done |-> y, rest |-> a.rest]
      BY <2>6 DEF y
    <3> QED
      BY <3>1 DEF y
  <2>11. CASE x = "n"
    <3>1. r = [done |-> SL!Closed(a), rest |-> <<>>]
      BY <2>11 DEF SL!Scan
    <3>2. SL!CutAt(f[j], x) = [done |-> d \o SL!Closed(a), rest |-> <<>>]
      BY <2>3, <2>6, <2>11, CutClosed
    <3>3. 0 <= Room(l, q, j + 1) /\ Plain(<<>>) /\ Len(<<>>) = 0
      BY <2>8 DEF Plain
    <3> HIDE DEF r
    <3> QED
      BY <2>9, <3>1, <3>2, <3>3
  <2>12. CASE x # "n"
    <3> DEFINE m == Append(a.rest, x)
    <3>1. /\ Len(m) = Len(a.rest) + 1 /\ m \in SL!Text /\ m[Len(m)] = x
          /\ \A i \in 1 .. Len(a.rest) : m[i] = a.rest[i]
      BY <2>3, <2>5 DEF SL!Text
    <3> HIDE DEF m
    <3>2. Len(m) <= Room(l, q, j + 1) /\ Len(m) # Size
      <4>1. Room(l, q, j + 1) = Room(l, q, j) + 1 /\ Room(l, q, j) \in Nat
        BY <2>7, <2>8, <2>12
      <4> QED
        BY <1>5, <2>5, <2>13, <2>8, <3>1, <4>1, SMTT(30)
    <3>3. Plain(m)
      <4> SUFFICES ASSUME NEW i \in 1 .. Len(m) PROVE m[i] # "n"
        BY DEF Plain
      <4>1. CASE i = Len(m)
        BY <2>12, <3>1, <4>1
      <4>2. CASE i # Len(m)
        <5>1. i \in 1 .. Len(a.rest)
          BY <2>5, <3>1, <4>2
        <5> QED
          BY <2>6, <3>1, <5>1 DEF Plain
      <4> QED
        BY <4>1, <4>2
    <3>4. r = [done |-> a.done, rest |-> m]
      BY <2>12 DEF SL!Scan, m
    <3>5. SL!CutAt(f[j], x) = [done |-> d \o a.done, rest |-> m]
      BY <2>10, <2>12, <3>2 DEF SL!CutAt, m
    <3> HIDE DEF r
    <3> QED
      BY <2>9, <3>2, <3>3, <3>4, <3>5
  <2> QED
    BY <2>11, <2>12
<1>8. \A j \in Nat : j \in M
  <2> HIDE DEF M
  <2> QED
    BY <1>6, <1>7, AllNumbers
<1>9. K(Len(t)) /\ l + Len(t) = Len(c) /\ Room(l, q, Len(t)) < Size /\ Room(l, q, Len(t)) \in Nat
  <2>1. Len(t) \in M
    BY <1>5, <1>8
  <2>2. K(Len(t))
    BY <1>5, <2>1
  <2> HIDE DEF M, K
  <2>3. Room(l, q, Len(t)) < Size /\ Room(l, q, Len(t)) \in Nat
    <3> DEFINE n == Len(t)
    <3>1. Fits(l, n, q, Size) /\ n \in Nat /\ n <= n
      BY <1>5 DEF Fits
    <3> HIDE DEF n
    <3>2. Room(l, q, n) < Size /\ Room(l, q, n) \in Nat
      BY <3>1, RoomGrows
    <3> QED
      BY <3>2 DEF n
  <2> QED
    BY <1>1, <1>5, <2>2, <2>3 DEF l
<1>10. SL!Lines(c) \in Found
  <2>1. Len(c) \in 0 .. Len(c)
    BY <1>1
  <2> QED
    BY <1>2, <1>3, <2>1
<1>11. Len(SL!Lines(c).rest) \in Nat
  BY <1>10 DEF Found, SL!Text
<1> HIDE DEF M
<1>12. g[l + Len(t)] = SL!Lines(c)
  BY <1>3, <1>9
<1> QED
  BY <1>1, <1>9, <1>10, <1>11, <1>12 DEF After, c, l

\* The log after one more chunk.
Held(r, d, b) ==
  /\ r \in SL!Text /\ d \in Seq(SL!Text) /\ b \in SL!Text
  /\ SL!Cut(r) = [done |-> d, rest |-> b] /\ Plain(b) /\ Len(b) < Size

LEMMA CutGrows ==
  ASSUME SL!Sound, NEW r, NEW d, NEW b, Held(r, d, b), NEW t \in SL!Text, Len(b) + Len(t) <= Size
  PROVE  /\ ~Plain(t) =>
              LET found == SL!Lines(b \o t)
              IN  /\ SL!Cut(r \o t) = After(d, found)
                  /\ found \in Found /\ Plain(found.rest) /\ Len(found.rest) < Size
         /\ Plain(t) /\ Len(b) + Len(t) = Size =>
              SL!Cut(r \o t) = [done |-> Append(d, b \o t), rest |-> <<>>]
         /\ Plain(t) /\ Len(b) + Len(t) # Size =>
              SL!Cut(r \o t) = [done |-> d, rest |-> b \o t]
<1> USE DEF Held
<1> DEFINE u == r \o t
           k == Len(r)
<1>1. /\ k \in Nat /\ Len(t) \in Nat /\ u \in SL!Text /\ Len(u) = k + Len(t)
      /\ \A i \in 1 .. k : u[i] = r[i]
      /\ \A i \in 1 .. Len(t) : u[k + i] = t[i]
  BY ConcatProperties DEF SL!Text
<1> HIDE DEF u
<1>2. PICK g \in [0 .. Len(u) -> Found] :
        g[0] = SL!NoLines /\ \A n \in 1 .. Len(u) : g[n] = SL!CutAt(g[n - 1], u[n])
  BY <1>1, CutAtRun
<1>3. SL!Cut(u) = g[k + Len(t)]
  BY <1>1, <1>2, CutAtIs
<1>4. SL!Cut(r) = g[k]
  <2>1. \A n \in 1 .. k : g[n] = SL!CutAt(g[n - 1], r[n])
    BY <1>1, <1>2
  <2> QED
    BY <1>2, <2>1, CutAtIs
<1> HIDE DEF k
<1> DEFINE f == [i \in 0 .. Len(t) |-> g[k + i]]
<1>5. f[0] = [done |-> d, rest |-> b] /\ SL!Cut(u) = f[Len(t)]
  BY <1>1, <1>3, <1>4
<1>6. \A i \in 1 .. Len(t) : f[i] = SL!CutAt(f[i - 1], t[i])
  <2> TAKE i \in 1 .. Len(t)
  <2>1. k + i \in 1 .. Len(u) /\ i \in 0 .. Len(t) /\ i - 1 \in 0 .. Len(t) /\ (k + i) - 1 = k + (i - 1)
    BY <1>1
  <2>2. g[k + i] = SL!CutAt(g[(k + i) - 1], u[k + i]) /\ u[k + i] = t[i]
    BY <1>1, <1>2, <2>1
  <2> QED
    BY <2>1, <2>2
<1> HIDE DEF f
<1>9. CutRun(f, d, b, t)
  BY <1>5, <1>6 DEF CutRun
<1>7. ASSUME ~Plain(t)
      PROVE  LET found == SL!Lines(b \o t)
             IN  /\ SL!Cut(u) = After(d, found)
                 /\ found \in Found /\ Plain(found.rest) /\ Len(found.rest) < Size
  BY <1>5, <1>7, <1>9, CutLines
<1>8. ASSUME Plain(t)
      PROVE  SL!Cut(u) = IF Len(b) + Len(t) = Size THEN [done |-> Append(d, b \o t), rest |-> <<>>]
                         ELSE [done |-> d, rest |-> b \o t]
  <2>1. \A i \in 1 .. Len(t) : t[i] # "n"
    BY <1>8 DEF Plain
  <2> QED
    BY <1>5, <1>6, <2>1, CutPlain, ZenonT(40)
<1> QED
  BY <1>7, <1>8 DEF u

\* What was read of a stream has been cut into the lines logged and the text in the buffer.
Logged(s) == \E r \in SL!Text :
  printed[s] = r \o slPipe[s] /\ SL!Cut(r) = [done |-> lines[s], rest |-> buf[s]]

LineInv == SL!TypeOK /\ \A s \in SL!Streams : Plain(buf[s]) /\ Logged(s)

LEMMA EmptyText == <<>> \in SL!Text /\ <<>> \in Seq(SL!Text) /\ Plain(<<>>) /\ Len(<<>>) = 0
BY DEF SL!Text, Plain

LEMMA CutNothing == SL!Cut(<<>>) = [done |-> <<>>, rest |-> <<>>]
<1>1. PICK f \in [0 .. Len(<<>>) -> Found] :
        f[0] = SL!NoLines /\ \A n \in 1 .. Len(<<>>) : f[n] = SL!CutAt(f[n - 1], <<>>[n])
  BY EmptyText, CutAtRun
<1>2. SL!Cut(<<>>) = f[0]
  BY <1>1, EmptyText, CutAtIs
<1> QED
  BY <1>1, <1>2 DEF SL!NoLines

LEMMA LineInit == ASSUME SL!Sound, SL!Init PROVE LineInv
<1>1. SL!TypeOK
  <2>1. slPipe = [s \in SL!Streams |-> <<>>] /\ buf = slPipe /\ printed = slPipe
        /\ lines = [s \in SL!Streams |-> <<>>]
    BY DEF SL!Init
  <2>2. /\ slPipe \in [SL!Streams -> SL!Text] /\ buf \in [SL!Streams -> SL!Text]
        /\ printed \in [SL!Streams -> SL!Text] /\ lines \in [SL!Streams -> Seq(SL!Text)]
    BY <2>1, EmptyText
  <2>3. \A s \in SL!Streams : Len(slPipe[s]) <= Size /\ Len(buf[s]) < Size
    BY <2>1, EmptyText DEF SL!Sound
  <2>4. ep \in [SL!Instances -> {"none", "created", "connect", "reading", "ready", "deaf"}]
        /\ created \in {0} \cup SL!Instances
    BY DEF SL!Init, SL!Instances, SL!Streams
  <2>5. slOpened = 0 /\ opening = TRUE /\ ended = FALSE /\ terminate = FALSE /\ slStop = "no" /\ slLogging = TRUE
    BY DEF SL!Init
  <2>6. slOpened \in 0 .. 2
    BY <2>5
  <2> QED
    BY <2>2, <2>3, <2>4, <2>5, <2>6, Zenon DEF SL!TypeOK
<1>2. ASSUME NEW s \in SL!Streams PROVE Plain(buf[s]) /\ Logged(s)
  <2>1. buf[s] = <<>> /\ slPipe[s] = <<>> /\ printed[s] = <<>> /\ lines[s] = <<>>
    BY <1>2 DEF SL!Init
  <2>2. <<>> = <<>> \o <<>>
    OBVIOUS
  <2> QED
    BY <2>1, <2>2, EmptyText, CutNothing DEF Logged
<1> QED
  BY <1>1, <1>2 DEF LineInv

\* The invariant and the property: what was read is what was printed without what is in the pipe.
LEMMA ReadIs ==
  ASSUME NEW r \in SL!Text, NEW p \in SL!Text
  PROVE  SubSeq(r \o p, 1, Len(r \o p) - Len(p)) = r
<1> DEFINE u == r \o p
<1>1. /\ Len(r) \in Nat /\ Len(p) \in Nat /\ u \in SL!Text /\ Len(u) = Len(r) + Len(p)
      /\ \A i \in 1 .. Len(r) : u[i] = r[i]
  BY ConcatProperties DEF SL!Text
<1> HIDE DEF u
<1>2. Len(u) - Len(p) = Len(r)
  BY <1>1
<1>3. /\ SubSeq(u, 1, Len(r)) \in SL!Text /\ Len(SubSeq(u, 1, Len(r))) = Len(r)
      /\ \A i \in 1 .. Len(r) : SubSeq(u, 1, Len(r))[i] = r[i]
  BY <1>1 DEF SL!Text
<1>4. SubSeq(u, 1, Len(r)) = r
  <2> DEFINE v == SubSeq(u, 1, Len(r))
  <2>1. v \in Seq({"x", "n"}) /\ r \in Seq({"x", "n"}) /\ Len(v) = Len(r) /\ \A i \in 1 .. Len(v) : v[i] = r[i]
    BY <1>3 DEF SL!Text
  <2> HIDE DEF v
  <2>2. v = r
    BY <2>1
  <2> QED
    BY <2>2 DEF v
<1> QED
  BY <1>2, <1>4 DEF u

LEMMA LinesAreWhole == ASSUME LineInv PROVE SL!LinesWhole
<1> SUFFICES ASSUME NEW s \in SL!Streams
             PROVE  SL!Cut(SubSeq(printed[s], 1, Len(printed[s]) - Len(slPipe[s])))
                      = [done |-> lines[s], rest |-> buf[s]]
  BY DEF SL!LinesWhole
<1>1. PICK r \in SL!Text :
        printed[s] = r \o slPipe[s] /\ SL!Cut(r) = [done |-> lines[s], rest |-> buf[s]]
  <2>1. Logged(s)
    BY DEF LineInv
  <2> QED
    BY <2>1 DEF Logged
<1>2. slPipe[s] \in SL!Text
  BY DEF LineInv, SL!TypeOK
<1>3. SubSeq(printed[s], 1, Len(printed[s]) - Len(slPipe[s])) = r
  BY <1>1, <1>2, ReadIs
<1> QED
  BY <1>1, <1>3

\* A step that neither prints nor reads.
LEMMA LineQuiet ==
  ASSUME LineInv, SL!TypeOK', UNCHANGED <<slPipe, buf, lines, printed>>
  PROVE  LineInv'
BY DEF LineInv, Logged

LEMMA LinePut ==
  ASSUME SL!Sound, LineInv, NEW s \in SL!Streams, NEW c \in {"x", "n"}, SL!Put(s, c)
  PROVE  LineInv'
<1> DEFINE p == slPipe[s]
<1>1. /\ Len(p) < Size /\ p \in SL!Text /\ printed[s] \in SL!Text /\ SL!TypeOK
      /\ slPipe' = [slPipe EXCEPT ![s] = Append(p, c)]
      /\ printed' = [printed EXCEPT ![s] = Append(printed[s], c)]
      /\ UNCHANGED <<slOpened, opening, ended, slStop, slLogging, created, terminate, ep, buf, lines>>
  BY DEF LineInv, SL!TypeOK, SL!Put, SL!CanPut, SL!initVars, SL!endpoint, SL!text
<1>2. /\ Append(p, c) \in SL!Text /\ Append(printed[s], c) \in SL!Text
      /\ Len(Append(p, c)) = Len(p) + 1 /\ Len(p) \in Nat
  BY <1>1 DEF SL!Text
<1>3. SL!TypeOK'
  <2>1. slPipe' \in [SL!Streams -> SL!Text] /\ printed' \in [SL!Streams -> SL!Text]
    BY <1>1, <1>2 DEF SL!TypeOK
  <2>2. \A z \in SL!Streams : Len(slPipe'[z]) <= Size /\ Len(buf'[z]) < Size
    BY <1>1, <1>2 DEF SL!TypeOK, SL!Sound
  <2> QED
    BY <1>1, <2>1, <2>2 DEF SL!TypeOK
<1>4. ASSUME NEW z \in SL!Streams, z # s PROVE Plain(buf'[z]) /\ Logged(z)'
  <2>1. Plain(buf[z]) /\ Logged(z)
    BY DEF LineInv
  <2>2. buf'[z] = buf[z] /\ lines'[z] = lines[z] /\ slPipe'[z] = slPipe[z] /\ printed'[z] = printed[z]
    BY <1>1, <1>4 DEF SL!TypeOK
  <2> QED
    BY <2>1, <2>2 DEF Logged
<1>5. Plain(buf'[s]) /\ Logged(s)'
  <2>1. Plain(buf[s]) /\ Logged(s)
    BY DEF LineInv
  <2>2. PICK r \in SL!Text : printed[s] = r \o p /\ SL!Cut(r) = [done |-> lines[s], rest |-> buf[s]]
    BY <2>1 DEF Logged
  <2>3. slPipe'[s] = Append(p, c) /\ printed'[s] = Append(printed[s], c)
    BY <1>1 DEF SL!TypeOK
  <2>4. Append(printed[s], c) = r \o Append(p, c)
    <3> DEFINE T == {"x", "n"}
               u == printed[s]
    <3>1. r \in Seq(T) /\ p \in Seq(T) /\ u \in Seq(T) /\ u = r \o p /\ c \in T
      BY <1>1, <2>2 DEF SL!Text
    <3> HIDE DEF T, p, u
    <3>2. <<c>> \in Seq(T)
      BY <3>1
    <3>3. Append(u, c) = u \o <<c>>
      BY <3>1, AppendIsConcat
    <3>4. Append(p, c) = p \o <<c>>
      BY <3>1, AppendIsConcat
    <3>5. (r \o p) \o <<c>> = r \o (p \o <<c>>)
      BY <3>1, <3>2, ConcatAssociative
    <3>6. Append(u, c) = r \o Append(p, c)
      BY <3>1, <3>3, <3>4, <3>5
    <3> QED
      BY <3>6 DEF u
  <2> QED
    BY <1>1, <2>1, <2>2, <2>3, <2>4 DEF Logged
<1> QED
  BY <1>3, <1>4, <1>5 DEF LineInv

\* A chunk that is read moves from what is in the pipe to what was read.
LEMMA ChunkRead ==
  ASSUME NEW r \in SL!Text, NEW p \in SL!Text, NEW n \in 1 .. Len(p)
  PROVE  LET chunk == SubSeq(p, 1, n)
             rest  == SubSeq(p, n + 1, Len(p))
         IN  /\ chunk \in SL!Text /\ Len(chunk) = n /\ r \o chunk \in SL!Text
             /\ rest \in SL!Text /\ Len(rest) = Len(p) - n
             /\ r \o p = (r \o chunk) \o rest
<1> DEFINE T == {"x", "n"}
           chunk == SubSeq(p, 1, n)
           rest  == SubSeq(p, n + 1, Len(p))
<1>1. r \in Seq(T) /\ p \in Seq(T) /\ Len(p) \in Nat
  BY DEF SL!Text
<1>2. /\ chunk \in Seq(T) /\ Len(chunk) = n /\ rest \in Seq(T) /\ Len(rest) = Len(p) - n
  BY <1>1
<1>3. chunk \o rest = p
  <2>1. 1 \in 1 .. Len(p) + 1 /\ n \in 1 - 1 .. Len(p) /\ Len(p) \in n .. Len(p)
    BY <1>1
  <2>2. chunk \o rest = SubSeq(p, 1, Len(p))
    BY <1>1, <2>1, ConcatAdjacentSubSeq
  <2> QED
    BY <1>1, <2>2, SubSeqFull
<1> HIDE DEF T, chunk, rest
<1>4. (r \o chunk) \o rest = r \o (chunk \o rest)
  <2>1. r \in Seq(T) /\ chunk \in Seq(T) /\ rest \in Seq(T)
    BY <1>1, <1>2
  <2> QED
    BY <2>1, ConcatAssociative, SMTT(30)
<1>5. r \o chunk \in Seq(T)
  BY <1>1, <1>2, ConcatProperties
<1>6. r \o p = (r \o chunk) \o rest
  BY <1>3, <1>4
<1> QED
  BY <1>2, <1>5, <1>6 DEF SL!Text, T, chunk, rest

LEMMA LineRead ==
  ASSUME SL!Sound, LineInv, NEW s \in SL!Streams, NEW n \in 1 .. Size, SL!Read(s, n)
  PROVE  LineInv'
<1> DEFINE p     == slPipe[s]
           b     == buf[s]
           d     == lines[s]
           chunk == SubSeq(p, 1, n)
           rest  == SubSeq(p, n + 1, Len(p))
           data  == b \o chunk
           found == IF SL!Contains(chunk, "n") THEN SL!Lines(data)
                    ELSE IF Len(data) = Size THEN [done |-> <<data>>, rest |-> <<>>]
                    ELSE [done |-> <<>>, rest |-> data]
<1>1. /\ n <= Len(p) /\ Len(b) + n <= Size
      /\ lines' = [lines EXCEPT ![s] = d \o found.done]
      /\ buf' = [buf EXCEPT ![s] = found.rest]
      /\ slPipe' = [slPipe EXCEPT ![s] = rest]
      /\ UNCHANGED <<slOpened, opening, ended, slStop, slLogging, created, terminate, ep, printed>>
  BY Zenon DEF SL!Read, SL!initVars, SL!endpoint
<1>2. /\ p \in SL!Text /\ b \in SL!Text /\ d \in Seq(SL!Text) /\ Len(p) \in Nat /\ Len(b) \in Nat
      /\ Len(p) <= Size /\ Len(b) < Size /\ SL!TypeOK /\ n \in Nat /\ Plain(b) /\ Logged(s)
  BY DEF LineInv, SL!TypeOK, SL!Text, SL!Sound
<1> HIDE DEF p, b, d
<1>3. n \in 1 .. Len(p)
  BY <1>1, <1>2
<1>4. PICK r \in SL!Text : printed[s] = r \o p /\ SL!Cut(r) = [done |-> d, rest |-> b]
  BY <1>2 DEF Logged, p, b, d
<1>5. /\ chunk \in SL!Text /\ Len(chunk) = n /\ r \o chunk \in SL!Text
      /\ rest \in SL!Text /\ Len(rest) = Len(p) - n
      /\ r \o p = (r \o chunk) \o rest
  BY <1>2, <1>3, ChunkRead, ZenonT(40)
<1> HIDE DEF chunk, rest
<1>6. SL!Contains(chunk, "n") <=> ~Plain(chunk)
  BY DEF SL!Contains, Plain
<1>7. data \in SL!Text /\ Len(data) = Len(b) + n
  BY <1>2, <1>5, ConcatProperties DEF SL!Text
<1>8. /\ SL!Cut(r \o chunk) = After(d, found)
      /\ found \in Found /\ Plain(found.rest) /\ Len(found.rest) < Size
  <2>1. Len(b) + Len(chunk) <= Size
    BY <1>1, <1>5
  <2>5. /\ ~Plain(chunk) =>
              /\ SL!Cut(r \o chunk) = After(d, SL!Lines(b \o chunk))
              /\ SL!Lines(b \o chunk) \in Found /\ Plain(SL!Lines(b \o chunk).rest)
              /\ Len(SL!Lines(b \o chunk).rest) < Size
        /\ Plain(chunk) /\ Len(b) + Len(chunk) = Size =>
              SL!Cut(r \o chunk) = [done |-> Append(d, b \o chunk), rest |-> <<>>]
        /\ Plain(chunk) /\ Len(b) + Len(chunk) # Size =>
              SL!Cut(r \o chunk) = [done |-> d, rest |-> b \o chunk]
    <3>1. Held(r, d, b) /\ chunk \in SL!Text
      BY <1>2, <1>4, <1>5 DEF Held
    <3> QED
      BY <2>1, <3>1, CutGrows
  <2>6. Len(data) = Len(b) + Len(chunk)
    BY <1>5, <1>7
  <2>2. CASE SL!Contains(chunk, "n")
    <3>1. /\ SL!Cut(r \o chunk) = After(d, SL!Lines(data)) /\ SL!Lines(data) \in Found
          /\ Plain(SL!Lines(data).rest) /\ Len(SL!Lines(data).rest) < Size
      BY <1>6, <2>2, <2>5
    <3>2. found = SL!Lines(data)
      BY <2>2
    <3> HIDE DEF data, found
    <3> QED
      BY <3>1, <3>2
  <2>3. CASE ~SL!Contains(chunk, "n") /\ Len(data) = Size
    <3>1. SL!Cut(r \o chunk) = [done |-> Append(d, data), rest |-> <<>>]
      BY <1>6, <2>3, <2>5, <2>6
    <3>2. found = [done |-> <<data>>, rest |-> <<>>]
      BY <2>3
    <3> DEFINE T == SL!Text
    <3>3. data \in T /\ d \in Seq(T) /\ <<>> \in T
      BY <1>2, <1>7, EmptyText
    <3> HIDE DEF T, data, found
    <3>4. <<data>> \in Seq(T) /\ Append(d, data) = d \o <<data>>
      BY <3>3, AppendIsConcat
    <3>5. found.done = <<data>> /\ found.rest = <<>>
      BY <3>2
    <3>6. found \in Found
      BY <3>2, <3>3, <3>4 DEF Found, T
    <3> QED
      BY <3>1, <3>4, <3>5, <3>6, EmptyText DEF After, SL!Sound
  <2>4. CASE ~SL!Contains(chunk, "n") /\ Len(data) # Size
    <3>1. SL!Cut(r \o chunk) = [done |-> d, rest |-> data]
      BY <1>6, <2>4, <2>5, <2>6
    <3>2. found = [done |-> <<>>, rest |-> data]
      BY <2>4
    <3>3. Plain(data)
      BY <1>2, <1>5, <1>6, <1>7, <2>4, ConcatProperties DEF Plain, SL!Text
    <3>4. d \o <<>> = d /\ data \in SL!Text /\ Len(data) < Size
      BY <1>1, <1>2, <1>7, <2>4, SMTT(30) DEF SL!Sound
    <3> HIDE DEF data, found
    <3>5. found.done = <<>> /\ found.rest = data
      BY <3>2
    <3>6. found \in Found
      BY <3>2, <3>4, EmptyText DEF Found
    <3> QED
      BY <3>1, <3>3, <3>4, <3>5, <3>6 DEF After
  <2> QED
    BY <2>2, <2>3, <2>4
<1> HIDE DEF data, found
<1>9. found.done \in Seq(SL!Text) /\ found.rest \in SL!Text
  BY <1>8 DEF Found
<1>10. d \o found.done \in Seq(SL!Text)
  BY <1>2, <1>9, ConcatProperties
<1>11. SL!TypeOK'
  <2>1. /\ slPipe' \in [SL!Streams -> SL!Text] /\ buf' \in [SL!Streams -> SL!Text]
        /\ lines' \in [SL!Streams -> Seq(SL!Text)]
    BY <1>1, <1>2, <1>5, <1>9, <1>10 DEF SL!TypeOK
  <2>2. Len(rest) <= Size
    BY <1>2, <1>5 DEF SL!Sound
  <2>3. \A z \in SL!Streams : Len(slPipe'[z]) <= Size /\ Len(buf'[z]) < Size
    BY <1>1, <1>2, <1>8, <2>2 DEF SL!TypeOK
  <2> QED
    BY <1>1, <1>2, <2>1, <2>3 DEF SL!TypeOK
<1>12. ASSUME NEW z \in SL!Streams, z # s PROVE Plain(buf'[z]) /\ Logged(z)'
  <2>1. Plain(buf[z]) /\ Logged(z)
    BY DEF LineInv
  <2>2. buf'[z] = buf[z] /\ lines'[z] = lines[z] /\ slPipe'[z] = slPipe[z] /\ printed'[z] = printed[z]
    BY <1>1, <1>2, <1>12 DEF SL!TypeOK
  <2> QED
    BY <2>1, <2>2 DEF Logged
<1>13. Plain(buf'[s]) /\ Logged(s)'
  <2>1. buf'[s] = found.rest /\ slPipe'[s] = rest /\ printed'[s] = printed[s]
        /\ lines'[s] = d \o found.done
    BY <1>1, <1>2 DEF SL!TypeOK
  <2> DEFINE u == r \o chunk
  <2>2. u \in SL!Text /\ printed'[s] = u \o rest /\ SL!Cut(u) = [done |-> lines'[s], rest |-> buf'[s]]
    BY <1>4, <1>5, <1>8, <2>1 DEF After
  <2> HIDE DEF u
  <2> QED
    BY <1>8, <2>1, <2>2 DEF Logged
<1> QED
  BY <1>11, <1>12, <1>13 DEF LineInv

LEMMA LineStep == ASSUME SL!Sound, LineInv, [SL!Next]_SL!vars PROVE LineInv'
<1> USE DEF SL!initVars, SL!endpoint, SL!text
<1>1. SL!TypeOK
  BY DEF LineInv
<1>2. CASE SL!Open
  <2>1. SL!TypeOK'
    BY <1>1, <1>2 DEF SL!Open, SL!TypeOK
  <2> QED
    BY <1>2, <2>1, LineQuiet DEF SL!Open
<1>3. CASE SL!GiveUp
  <2>1. SL!TypeOK'
    BY <1>1, <1>3 DEF SL!GiveUp, SL!TypeOK
  <2> QED
    BY <1>3, <2>1, LineQuiet DEF SL!GiveUp
<1>4. ASSUME NEW s \in SL!Streams, NEW c \in {"x", "n"}, SL!Put(s, c) PROVE LineInv'
  BY <1>4, LinePut
<1>5. CASE SL!End
  <2>1. SL!TypeOK'
    BY <1>1, <1>5 DEF SL!End, SL!TypeOK
  <2> QED
    BY <1>5, <2>1, LineQuiet DEF SL!End
<1>6. CASE SL!Stop
  <2>1. SL!TypeOK'
    BY <1>1, <1>6 DEF SL!Stop, SL!TypeOK
  <2> QED
    BY <1>6, <2>1, LineQuiet DEF SL!Stop
<1>7. CASE SL!Setup
  <2>1. SL!TypeOK'
    BY <1>1, <1>7 DEF SL!Setup, SL!TypeOK
  <2> QED
    BY <1>7, <2>1, LineQuiet DEF SL!Setup
<1>8. ASSUME NEW i \in SL!Streams, SL!Connected(i) \/ SL!Unexpected(i) PROVE LineInv'
  <2>1. SL!TypeOK'
    BY <1>1, <1>8 DEF SL!Connected, SL!Unexpected, SL!TypeOK, SL!Streams, SL!Instances
  <2> QED
    BY <1>8, <2>1, LineQuiet DEF SL!Connected, SL!Unexpected
<1>9. ASSUME NEW s \in SL!Streams, SL!ReadSome(s) PROVE LineInv'
  BY <1>9, LineRead DEF SL!ReadSome
<1>10. CASE SL!StopSeen
  <2>1. SL!TypeOK'
    BY <1>1, <1>10 DEF SL!StopSeen, SL!TypeOK
  <2> QED
    BY <1>10, <2>1, LineQuiet DEF SL!StopSeen
<1>11. CASE SL!Leave
  <2>1. SL!TypeOK'
    BY <1>1, <1>11 DEF SL!Leave, SL!TypeOK
  <2> QED
    BY <1>11, <2>1, LineQuiet DEF SL!Leave
<1>12. CASE UNCHANGED SL!vars
  <2>1. SL!TypeOK'
    BY <1>1, <1>12 DEF SL!vars, SL!TypeOK
  <2> QED
    BY <1>12, <2>1, LineQuiet DEF SL!vars
<1> QED
  BY <1>2, <1>3, <1>4, <1>5, <1>6, <1>7, <1>8, <1>9, <1>10, <1>11, <1>12 DEF SL!Next

-----------------------------------------------------------------------------
(* The types of the eight.                                                 *)

LEMMA LoggerTypeStep ==
  ASSUME MaxLines \in Nat, Period \in Nat \ {0}, LoggerInv, TypeOK, [Next]_vars
  PROVE  TypeOK'
<1>0. Types'
  BY TypesStep
<1> USE DEF Types, States, TypeOK, pushVars, consVars
<1>1. CASE Start
  BY <1>0, <1>1 DEF Start
<1>2. CASE Stop
  BY <1>0, <1>2 DEF Stop
<1>3. CASE Stopped
  BY <1>0, <1>3 DEF Stopped
<1>4. ASSUME NEW p \in Pushers, Push(p) PROVE TypeOK'
  BY <1>0, <1>4 DEF Push
<1>5. ASSUME NEW p \in Pushers, Signal(p) PROVE TypeOK'
  BY <1>0, <1>5 DEF Signal
<1>6. CASE Woken
  BY <1>0, <1>6 DEF Woken
<1>7. CASE TimedOut
  BY <1>0, <1>7 DEF TimedOut
<1>8. CASE Steal
  BY <1>0, <1>8 DEF Steal
<1>9. CASE Write
  <2>1. slice # <<>> /\ slice[1] = Len(log) + 1 /\ Len(log) + Len(slice) <= tail
    BY <1>9 DEF Write, LoggerInv, Numbered
  <2>2. Head(slice) \in 1 .. MaxLines
    BY <2>1
  <2>3. (block + 1) % Period \in Nat
    OBVIOUS
  <2>4. lost' \subseteq 1 .. MaxLines /\ block' \in Nat
    BY <1>9, <2>2, <2>3 DEF Write
  <2>5. UNCHANGED <<impl, pushVars, stop, term, opened, atStop>>
    BY <1>9 DEF Write
  <2> QED
    BY <1>0, <2>4, <2>5
<1>10. CASE Check
  BY <1>0, <1>10 DEF Check, MayRoll
<1>11. CASE Flush
  BY <1>0, <1>11 DEF Flush, MayRoll
<1>12. CASE UNCHANGED vars
  BY <1>0, <1>12 DEF vars
<1> QED
  BY <1>0, <1>1, <1>2, <1>3, <1>4, <1>5, <1>6, <1>7, <1>8, <1>9, <1>10, <1>11, <1>12 DEF Next,
     Consumer

\* The one thread that initialises the mutex holds its lock, and the flag is set once; a
\* count that was wiped is one too low from then on.
Initialising == {"initcheck", "initflag", "initnest", "initleave"}

WipeInv ==
  /\ lock \in BOOLEAN /\ condLock \in BOOLEAN /\ section \in Pair \cup {Nobody}
  /\ \A t \in Pair : mxPc[t] \in Initialising => lock
  /\ \A t, u \in Pair : mxPc[t] \in Initialising /\ mxPc[u] \in Initialising => t = u
  /\ flag => \A t \in Pair : mxPc[t] # "initflag"
  /\ wiped => flag /\ \A t \in Pair : mxPc[t] # "initnest"
  /\ wiped => nest = IF \E t \in Pair : Counted(t) THEN 0 ELSE -1

\* Of a step that neither enters the initialisation nor counts or gives up.
LEMMA WipeKept ==
  ASSUME WipeInv, UNCHANGED <<lock, flag, nest, section, wiped>>, condLock' \in BOOLEAN,
         \A u \in Pair : /\ Counted(u)' <=> Counted(u)
                         /\ mxPc'[u] \in Initialising => mxPc'[u] = mxPc[u]
  PROVE  WipeInv'
<1>1. (\E t \in Pair : Counted(t)') <=> \E t \in Pair : Counted(t)
  OBVIOUS
<1>2. nest' = nest /\ flag' = flag /\ lock' = lock /\ section' = section /\ wiped' = wiped
  OBVIOUS
<1>3. \A t \in Pair : mxPc'[t] \in Initialising => mxPc'[t] = mxPc[t]
  OBVIOUS
<1>4. \A t \in Pair : /\ mxPc'[t] = "initflag" => mxPc[t] = "initflag"
                      /\ mxPc'[t] = "initnest" => mxPc[t] = "initnest"
  BY <1>3 DEF Initialising
<1> HIDE DEF Initialising
<1>5. wiped' => nest' = IF \E t \in Pair : Counted(t)' THEN 0 ELSE -1
  BY <1>1, <1>2 DEF WipeInv
<1>6. wiped' => flag' /\ \A t \in Pair : mxPc'[t] # "initnest"
  BY <1>2, <1>4 DEF WipeInv
<1>7. flag' => \A t \in Pair : mxPc'[t] # "initflag"
  BY <1>2, <1>4 DEF WipeInv
<1>8. \A t \in Pair : mxPc'[t] \in Initialising => lock'
  BY <1>2, <1>3 DEF WipeInv
<1>9. \A t, u \in Pair : mxPc'[t] \in Initialising /\ mxPc'[u] \in Initialising => t = u
  BY <1>3 DEF WipeInv
<1>10. lock' \in BOOLEAN /\ condLock' \in BOOLEAN /\ section' \in Pair \cup {Nobody}
  BY <1>2 DEF WipeInv
<1> QED
  BY <1>5, <1>6, <1>7, <1>8, <1>9, <1>10 DEF WipeInv

LEMMA WipeStep ==
  ASSUME MutexTypes, MutexInv, CondInv, WipeInv, [MX!Next]_MX!vars, Nobody \notin Pair
  PROVE  WipeInv'
<1> USE DEF MutexTypes, WipeInv, Initialising, MX!Steps, MX!Calls, MX!Goto, MX!Stay,
   MX!mutexVars,
   MX!condVars
<1> USE DEF MutexInv, MX!Exclusive, MX!Holds, MX!InMutex, MX!InCond, Counted
<1>1. ASSUME NEW t \in Pair, MX!Begin(t) PROVE WipeInv'
  BY <1>1 DEF MX!Begin, MX!Call
<1>2. ASSUME NEW t \in Pair, MX!Check(t) PROVE WipeInv'
  BY <1>2 DEF MX!Check
<1>3. ASSUME NEW t \in Pair, MX!InitLock(t) PROVE WipeInv'
  BY <1>3 DEF MX!InitLock
<1>4. ASSUME NEW t \in Pair, MX!InitCheck(t) PROVE WipeInv'
  BY <1>4 DEF MX!InitCheck
<1>5. ASSUME NEW t \in Pair, MX!InitFlag(t) PROVE WipeInv'
  BY <1>5 DEF MX!InitFlag
<1>6. ASSUME NEW t \in Pair, MX!InitNest(t) PROVE WipeInv'
  <2>1. flag /\ ~wiped
    BY <1>6 DEF MX!InitNest, Unmade
  <2>2. nest = IF \E u \in Pair : Counted(u) THEN 1 ELSE 0
    BY <2>1
  <2>3. /\ mxPc' = [mxPc EXCEPT ![t] = "initleave"] /\ mxPc[t] = "initnest"
        /\ UNCHANGED <<lock, flag, section, condLock, op>>
        /\ nest' = 0 /\ wiped' = (nest # 0)
    BY <1>6, <2>1 DEF MX!InitNest
  <2>4. \A u \in Pair : Counted(u)' <=> Counted(u)
    BY <2>3
  <2>5. \A u \in Pair : /\ mxPc'[u] \in Initialising => mxPc[u] \in Initialising
                        /\ mxPc'[u] # "initnest"
                        /\ mxPc'[u] = "initflag" => mxPc[u] = "initflag"
    BY <2>3
  <2>6. wiped' => nest' = IF \E u \in Pair : Counted(u)' THEN 0 ELSE -1
    BY <2>2, <2>3, <2>4
  <2> HIDE DEF Counted, Initialising
  <2> QED
    BY <2>1, <2>3, <2>5, <2>6
<1>7. ASSUME NEW t \in Pair, MX!InitLeave(t) PROVE WipeInv'
  BY <1>7, ZenonT(40) DEF MX!InitLeave
<1>8. ASSUME NEW t \in Pair, MX!Enter(t) PROVE WipeInv'
  BY <1>8 DEF MX!Enter
<1>9. ASSUME NEW t \in Pair, MX!Busy(t) PROVE WipeInv'
  BY <1>9 DEF MX!Busy
<1>10. ASSUME NEW t \in Pair, MX!Count(t) PROVE WipeInv'
  BY <1>10 DEF MX!Count
<1>11. ASSUME NEW t \in Pair, MX!Unlock(t) PROVE WipeInv'
  BY <1>11 DEF MX!Unlock
<1>12. ASSUME NEW t \in Pair, MX!Leave(t) PROVE WipeInv'
  BY <1>12 DEF MX!Leave
<1>13. ASSUME NEW t \in Pair, MX!Wait(t) PROVE WipeInv'
  BY <1>13 DEF MX!Wait, MX!Call
<1>14. ASSUME NEW t \in Pair, MX!Satisfy(t) PROVE WipeInv'
  BY <1>14 DEF MX!Satisfy, MX!Call
<1>15. ASSUME NEW t \in Pair, MX!Done(t) PROVE WipeInv'
  BY <1>15 DEF MX!Done, MX!Call
<1>16. ASSUME NEW t \in Pair, MX!Signal(t) PROVE WipeInv'
  BY <1>16 DEF MX!Signal, MX!Call
<1>17. ASSUME NEW t \in Pair, MX!CondCheck(t) PROVE WipeInv'
  BY <1>17 DEF MX!CondCheck, MX!Called
<1>18. ASSUME NEW t \in Pair, MX!CondInitLock(t) PROVE WipeInv'
  BY <1>18 DEF MX!CondInitLock
<1>19. ASSUME NEW t \in Pair, MX!CondInitCheck(t) PROVE WipeInv'
  BY <1>19 DEF MX!CondInitCheck
<1>20. ASSUME NEW t \in Pair, MX!CondInitFlag(t) PROVE WipeInv'
  BY <1>20 DEF MX!CondInitFlag
<1>21. ASSUME NEW t \in Pair, MX!CondInitLeave(t) PROVE WipeInv'
  <2>1. /\ UNCHANGED <<lock, flag, nest, section, wiped, op>> /\ condLock' = FALSE
        /\ mxPc[t] = "cinitleave" /\ mxPc' = [mxPc EXCEPT ![t] = MX!Called(t)]
    BY <1>21 DEF MX!CondInitLeave
  <2>2. (MX!Called(t) = "assert" /\ op[t] # "signal") \/ MX!Called(t) = "wake"
    BY DEF MX!Called
  <2>3. \A u \in Pair : /\ Counted(u)' <=> Counted(u)
                        /\ mxPc'[u] \in Initialising => mxPc'[u] = mxPc[u]
    BY <2>1, <2>2
  <2> QED
    BY <2>1, <2>3, WipeKept
<1>22. ASSUME NEW t \in Pair, MX!Assert(t) PROVE WipeInv'
  BY <1>22 DEF MX!Assert
<1>23. ASSUME NEW t \in Pair, MX!Expired(t) PROVE WipeInv'
  BY <1>23 DEF MX!Expired
<1>24. ASSUME NEW t \in Pair, MX!Sleep(t) PROVE WipeInv'
  BY <1>24 DEF MX!Sleep
<1>25. ASSUME NEW t \in Pair, MX!Timeout(t) PROVE WipeInv'
  BY <1>25 DEF MX!Timeout
<1>26. ASSUME NEW t \in Pair, MX!Awake(t) PROVE WipeInv'
  BY <1>26 DEF MX!Awake
<1>27. ASSUME NEW t \in Pair, MX!Renest(t) PROVE WipeInv'
  BY <1>27 DEF MX!Renest
<1>28. ASSUME NEW t \in Pair, MX!Wake(t) PROVE WipeInv'
  <2>1. PICK woken \in SUBSET asleep :
          mxPc' = [u \in Pair |-> IF u \in woken THEN "awake" ELSE IF u # t THEN mxPc[u]
                                 ELSE IF op[t] = "broadcast" THEN "locked" ELSE "idle"]
    BY <1>28 DEF MX!Wake
  <2>2. /\ mxPc[t] = "wake" /\ (op[t] = "signal" \/ op[t] = "broadcast")
        /\ UNCHANGED <<op, lock, flag, nest, section, wiped, condLock>>
    BY <1>28 DEF MX!Wake, CondInv
  <2>3. \A u \in woken : u \in Pair /\ mxPc[u] = "asleep"
    BY DEF CondInv, MX!At
  <2>4. \A u \in Pair : /\ Counted(u)' <=> Counted(u)
                        /\ mxPc'[u] \in Initialising => mxPc'[u] = mxPc[u]
    BY <2>1, <2>2, <2>3
  <2> QED
    BY <2>2, <2>4, WipeKept
<1>29. CASE UNCHANGED MX!vars
  BY <1>29 DEF MX!vars, MX!mutexVars, MX!condVars, Counted, MX!Holds
<1> QED
  BY <1>1, <1>2, <1>3, <1>4, <1>5, <1>6, <1>7, <1>8, <1>9, <1>10, <1>11, <1>12, <1>13, <1>14,
     <1>15,
     <1>16, <1>17, <1>18, <1>19, <1>20, <1>21, <1>22, <1>23, <1>24, <1>25, <1>26, <1>27, <1>28,
     <1>29 DEF MX!Next

LEMMA MutexTyped == ASSUME MutexTypes, MutexInv, CondInv, WipeInv PROVE MX!TypeOK
<1>1. asleep \subseteq Pair
  BY DEF CondInv, MX!At
<1>2. nest \in -1 .. 2
  BY DEF MutexTypes, MutexInv, WipeInv
<1> QED
  BY <1>1, <1>2 DEF MutexTypes, WipeInv, MX!TypeOK

LEMMA LocksTypeStep == ASSUME SK!TypeOK, [SK!Next]_SK!vars PROVE SK!TypeOK'
<1> USE DEF SK!TypeOK, SK!Steps, SK!Owners, SK!Goto, SK!spinVars, SK!slimVars
<1>1. ASSUME NEW t \in Threads, SK!Begin(t) PROVE SK!TypeOK'
  BY <1>1 DEF SK!Begin
<1>2. ASSUME NEW t \in Threads, SK!Deadlock(t) PROVE SK!TypeOK'
  BY <1>2 DEF SK!Deadlock
<1>3. ASSUME NEW t \in Threads, SK!Spin(t) PROVE SK!TypeOK'
  BY <1>3 DEF SK!Spin
<1>4. ASSUME NEW t \in Threads, SK!SpinBusy(t) PROVE SK!TypeOK'
  BY <1>4 DEF SK!SpinBusy
<1>5. ASSUME NEW t \in Threads, SK!SpinOwner(t) PROVE SK!TypeOK'
  BY <1>5 DEF SK!SpinOwner
<1>6. ASSUME NEW t \in Threads, SK!SpinUnlock(t) PROVE SK!TypeOK'
  BY <1>6 DEF SK!SpinUnlock
<1>7. ASSUME NEW t \in Threads, SK!SpinDrop(t) PROVE SK!TypeOK'
  BY <1>7 DEF SK!SpinDrop
<1>8. ASSUME NEW t \in Threads, SK!RdLock(t) PROVE SK!TypeOK'
  BY <1>8 DEF SK!RdLock
<1>9. ASSUME NEW t \in Threads, SK!WrLock(t) PROVE SK!TypeOK'
  BY <1>9 DEF SK!WrLock
<1>10. ASSUME NEW t \in Threads, SK!TryBusy(t) PROVE SK!TypeOK'
  BY <1>10 DEF SK!TryBusy
<1>11. ASSUME NEW t \in Threads, SK!WrOwner(t) PROVE SK!TypeOK'
  BY <1>11 DEF SK!WrOwner
<1>12. ASSUME NEW t \in Threads, SK!Unlock(t) PROVE SK!TypeOK'
  BY <1>12 DEF SK!Unlock
<1>13. ASSUME NEW t \in Threads, SK!WrDrop(t) PROVE SK!TypeOK'
  BY <1>13 DEF SK!WrDrop
<1>14. CASE UNCHANGED SK!vars
  BY <1>14 DEF SK!vars
<1> QED
  BY <1>1, <1>2, <1>3, <1>4, <1>5, <1>6, <1>7, <1>8, <1>9, <1>10, <1>11, <1>12, <1>13, <1>14 DEF
     SK!Next

\* ST!TypeOK in two parts.
ThreadPlace ==
  /\ caller \in ST!CallerSteps /\ thread \in ST!ThreadSteps
  /\ result \in {"none", "0", "value", "no value", "ESRCH", "EINVAL"}

ThreadFlags ==
  /\ detached \in BOOLEAN /\ allocated \in BOOLEAN /\ handle \in BOOLEAN /\ joining \in BOOLEAN
  /\ ret \in BOOLEAN /\ open \in BOOLEAN
  /\ quick \in BOOLEAN /\ late \in BOOLEAN /\ wild \in BOOLEAN

LEMMA ThreadPlaceKept == ASSUME ThreadPlace, [ST!Next]_ST!vars PROVE ThreadPlace'
<1> USE DEF ThreadPlace, ST!Goto, ST!Turn, ST!Uses, ST!instance,
   ST!CallerSteps, ST!ThreadSteps
<1>1. CASE ST!Create
  BY <1>1 DEF ST!Create
<1>2. CASE ST!Assign
  BY <1>2 DEF ST!Assign
<1>3. CASE ST!Drop
  BY <1>3 DEF ST!Drop
<1>4. CASE ST!JoinLock
  BY <1>4 DEF ST!JoinLock
<1>5. CASE ST!Wait
  BY <1>5 DEF ST!Wait
<1>6. CASE ST!WaitFails
  BY <1>6 DEF ST!WaitFails
<1>7. CASE ST!Take
  BY <1>7 DEF ST!Take
<1>8. CASE ST!Lost
  BY <1>8 DEF ST!Lost
<1>9. CASE ST!Join
  BY <1>9 DEF ST!Join
<1>10. CASE ST!Detach
  BY <1>10 DEF ST!Detach
<1>11. CASE ST!Return
  BY <1>11 DEF ST!Return
<1>12. CASE ST!Look
  BY <1>12 DEF ST!Look
<1>13. CASE ST!FreeDetached
  BY <1>13 DEF ST!FreeDetached
<1>14. CASE ST!Exit
  BY <1>14 DEF ST!Exit
<1>15. CASE ST!ExitLook
  BY <1>15 DEF ST!ExitLook
<1>16. CASE ST!ExitFree
  BY <1>16 DEF ST!ExitFree
<1>17. CASE ST!ExitOver
  BY <1>17 DEF ST!ExitOver
<1>18. CASE UNCHANGED ST!vars
  BY <1>18 DEF ST!vars
<1> QED
  BY <1>1, <1>2, <1>3, <1>4, <1>5, <1>6, <1>7, <1>8, <1>9, <1>10, <1>11, <1>12, <1>13, <1>14,
     <1>15, <1>16, <1>17, <1>18, Zenon DEF ST!Next, ST!Calling, ST!Running

LEMMA ThreadFlagsKept == ASSUME ThreadFlags, [ST!Next]_ST!vars PROVE ThreadFlags'
<1> USE DEF ThreadFlags, ST!Goto, ST!Turn, ST!Uses, ST!instance
<1>1. CASE ST!Create
  BY <1>1, Zenon DEF ST!Create
<1>2. CASE ST!Assign
  BY <1>2, Zenon DEF ST!Assign
<1>3. CASE ST!Drop
  BY <1>3, Zenon DEF ST!Drop
<1>4. CASE ST!JoinLock
  BY <1>4, Zenon DEF ST!JoinLock
<1>5. CASE ST!Wait
  BY <1>5, Zenon DEF ST!Wait
<1>6. CASE ST!WaitFails
  BY <1>6, Zenon DEF ST!WaitFails
<1>7. CASE ST!Take
  BY <1>7, Zenon DEF ST!Take
<1>8. CASE ST!Lost
  BY <1>8, Zenon DEF ST!Lost
<1>9. CASE ST!Join
  BY <1>9, Zenon DEF ST!Join
<1>10. CASE ST!Detach
  <2>1. late' \in BOOLEAN /\ handle' \in BOOLEAN /\ open' \in BOOLEAN
    <3>1. CASE handle
      <4>1. late' = (thread \in {"exits", "over"}) /\ handle' = FALSE /\ open' = FALSE
        BY <1>10, <3>1 DEF ST!Detach
      <4>2. late' \in BOOLEAN
        BY <4>1
      <4> QED
        BY <4>1, <4>2, Zenon
    <3>2. CASE ~handle
      BY <1>10, <3>2, Zenon DEF ST!Detach
    <3> QED
      BY <3>1, <3>2
  <2>2. UNCHANGED <<thread, detached, allocated, joining, ret, quick, wild>>
    BY <1>10 DEF ST!Detach
  <2> QED
    BY <2>1, <2>2, Zenon
<1>11. CASE ST!Return
  BY <1>11, Zenon DEF ST!Return
<1>12. CASE ST!Look
  BY <1>12, Zenon DEF ST!Look
<1>13. CASE ST!FreeDetached
  BY <1>13, Zenon DEF ST!FreeDetached
<1>14. CASE ST!Exit
  BY <1>14, Zenon DEF ST!Exit
<1>15. CASE ST!ExitLook
  BY <1>15, Zenon DEF ST!ExitLook
<1>16. CASE ST!ExitFree
  BY <1>16, Zenon DEF ST!ExitFree
<1>17. CASE ST!ExitOver
  BY <1>17, Zenon DEF ST!ExitOver
<1>18. CASE UNCHANGED ST!vars
  BY <1>18, Zenon DEF ST!vars
<1> QED
  BY <1>1, <1>2, <1>3, <1>4, <1>5, <1>6, <1>7, <1>8, <1>9, <1>10, <1>11, <1>12, <1>13, <1>14,
     <1>15, <1>16, <1>17, <1>18, Zenon DEF ST!Next, ST!Calling, ST!Running

LEMMA ThreadTypeStep == ASSUME ST!TypeOK, [ST!Next]_ST!vars PROVE ST!TypeOK'
<1>1. ThreadPlace /\ ThreadFlags
  BY DEF ST!TypeOK, ThreadPlace, ThreadFlags
<1>2. ThreadPlace' /\ ThreadFlags'
  BY <1>1, ThreadPlaceKept, ThreadFlagsKept
<1> QED
  BY <1>2, Zenon DEF ThreadPlace, ThreadFlags, ST!TypeOK

\* SC!TypeOK in four parts that a step keeps each by itself; ControlTypes is the fifth.
HandlerPlaces ==
  hpc \in {"dispatch", "stop", "stopping", "clear", "event", "report", "destroyed", "exited"}
StatusPlaces == scStatus \in SC!States /\ scm \in SC!States
ThreadPlaces ==
  /\ server \in {"none", "starting", "running", "told", "ended"}
  /\ logging \in {"none", "running", "told", "ended"}

ControlFlags ==
  /\ console \in BOOLEAN /\ logger \in BOOLEAN
  /\ running \in BOOLEAN /\ stopEvent \in BOOLEAN
  /\ stopped \in BOOLEAN /\ scEarly \in BOOLEAN /\ deaf \in BOOLEAN /\ alone \in BOOLEAN

LEMMA HandlerStep == ASSUME HandlerPlaces, [SC!Next]_SC!vars PROVE HandlerPlaces'
<1> USE DEF HandlerPlaces, SC!Main, SC!Report, SC!SetStatus, SC!Handler, SC!modes, SC!history
<1>1. CASE SC!Tell
  BY <1>1 DEF SC!Tell
<1>2. CASE SC!Register
  BY <1>2 DEF SC!Register
<1>3. CASE SC!Pending
  BY <1>3 DEF SC!Pending
<1>4. CASE SC!OnInit
  BY <1>4 DEF SC!OnInit
<1>5. CASE SC!SetRunning
  BY <1>5 DEF SC!SetRunning
<1>6. CASE SC!ConsoleStart
  BY <1>6 DEF SC!ConsoleStart
<1>7. CASE SC!Initialise
  BY <1>7 DEF SC!Initialise
<1>8. CASE SC!Wait
  BY <1>8 DEF SC!Wait
<1>9. CASE SC!Shutdown
  BY <1>9 DEF SC!Shutdown
<1>10. CASE SC!AwaitServer
  BY <1>10 DEF SC!AwaitServer
<1>11. CASE SC!StopLogger
  BY <1>11 DEF SC!StopLogger
<1>12. CASE SC!AwaitLogger
  BY <1>12 DEF SC!AwaitLogger
<1>13. CASE SC!Final
  BY <1>13 DEF SC!Final
<1>14. CASE SC!ConsoleEnd
  BY <1>14 DEF SC!ConsoleEnd
<1>15. CASE SC!StopPending
  BY <1>15 DEF SC!StopPending
<1>16. CASE SC!TellPending
  BY <1>16 DEF SC!TellPending
<1>17. CASE SC!ClearRunning
  BY <1>17 DEF SC!ClearRunning
<1>18. CASE SC!SetStopEvent
  BY <1>18 DEF SC!SetStopEvent
<1>19. CASE SC!TellStatus
  BY <1>19 DEF SC!TellStatus
<1>20. CASE SC!Destroy
  BY <1>20 DEF SC!Destroy
<1>21. CASE SC!Exit
  BY <1>21 DEF SC!Exit
<1>22. CASE SC!Stop
  BY <1>22 DEF SC!Stop
<1>23. CASE SC!Interrogate
  BY <1>23 DEF SC!Interrogate
<1>24. CASE SC!SignalPipe
  BY <1>24 DEF SC!SignalPipe
<1>25. CASE SC!ServerStops
  BY <1>25 DEF SC!ServerStops
<1>26. CASE SC!ServerFails
  BY <1>26 DEF SC!ServerFails
<1>27. CASE SC!LoggerEnds
  BY <1>27 DEF SC!LoggerEnds
<1>28. CASE UNCHANGED SC!vars
  BY <1>28 DEF SC!vars
<1> QED
  BY <1>1, <1>2, <1>3, <1>4, <1>5, <1>6, <1>7, <1>8, <1>9, <1>10, <1>11, <1>12, <1>13, <1>14,
     <1>15, <1>16, <1>17, <1>18, <1>19, <1>20, <1>21, <1>22, <1>23, <1>24, <1>25, <1>26,
     <1>27, <1>28, 
     Zenon DEF SC!Next, SC!ServiceMain, SC!Dispatcher

LEMMA StatusStep == ASSUME StatusPlaces, [SC!Next]_SC!vars PROVE StatusPlaces'
<1> USE DEF StatusPlaces, SC!Main, SC!Report, SC!SetStatus, SC!Handler, SC!modes, SC!history,
   SC!States
<1>1. CASE SC!Tell
  BY <1>1 DEF SC!Tell
<1>2. CASE SC!Register
  BY <1>2 DEF SC!Register
<1>3. CASE SC!Pending
  BY <1>3 DEF SC!Pending
<1>4. CASE SC!OnInit
  BY <1>4 DEF SC!OnInit
<1>5. CASE SC!SetRunning
  BY <1>5 DEF SC!SetRunning
<1>6. CASE SC!ConsoleStart
  BY <1>6 DEF SC!ConsoleStart
<1>7. CASE SC!Initialise
  BY <1>7 DEF SC!Initialise
<1>8. CASE SC!Wait
  BY <1>8 DEF SC!Wait
<1>9. CASE SC!Shutdown
  BY <1>9 DEF SC!Shutdown
<1>10. CASE SC!AwaitServer
  BY <1>10 DEF SC!AwaitServer
<1>11. CASE SC!StopLogger
  BY <1>11 DEF SC!StopLogger
<1>12. CASE SC!AwaitLogger
  BY <1>12 DEF SC!AwaitLogger
<1>13. CASE SC!Final
  BY <1>13 DEF SC!Final
<1>14. CASE SC!ConsoleEnd
  BY <1>14 DEF SC!ConsoleEnd
<1>15. CASE SC!StopPending
  BY <1>15 DEF SC!StopPending
<1>16. CASE SC!TellPending
  BY <1>16 DEF SC!TellPending
<1>17. CASE SC!ClearRunning
  BY <1>17 DEF SC!ClearRunning
<1>18. CASE SC!SetStopEvent
  BY <1>18 DEF SC!SetStopEvent
<1>19. CASE SC!TellStatus
  BY <1>19 DEF SC!TellStatus
<1>20. CASE SC!Destroy
  BY <1>20 DEF SC!Destroy
<1>21. CASE SC!Exit
  BY <1>21 DEF SC!Exit
<1>22. CASE SC!Stop
  BY <1>22 DEF SC!Stop
<1>23. CASE SC!Interrogate
  BY <1>23 DEF SC!Interrogate
<1>24. CASE SC!SignalPipe
  BY <1>24 DEF SC!SignalPipe
<1>25. CASE SC!ServerStops
  BY <1>25 DEF SC!ServerStops
<1>26. CASE SC!ServerFails
  BY <1>26 DEF SC!ServerFails
<1>27. CASE SC!LoggerEnds
  BY <1>27 DEF SC!LoggerEnds
<1>28. CASE UNCHANGED SC!vars
  BY <1>28 DEF SC!vars
<1> QED
  BY <1>1, <1>2, <1>3, <1>4, <1>5, <1>6, <1>7, <1>8, <1>9, <1>10, <1>11, <1>12, <1>13, <1>14,
     <1>15, <1>16, <1>17, <1>18, <1>19, <1>20, <1>21, <1>22, <1>23, <1>24, <1>25, <1>26,
     <1>27, <1>28, 
     Zenon DEF SC!Next, SC!ServiceMain, SC!Dispatcher

LEMMA ThreadPlaceStep == ASSUME ThreadPlaces, [SC!Next]_SC!vars PROVE ThreadPlaces'
<1> USE DEF ThreadPlaces, SC!Main, SC!Report, SC!SetStatus, SC!Handler, SC!modes, SC!history
<1>1. CASE SC!Tell
  BY <1>1 DEF SC!Tell
<1>2. CASE SC!Register
  BY <1>2 DEF SC!Register
<1>3. CASE SC!Pending
  BY <1>3 DEF SC!Pending
<1>4. CASE SC!OnInit
  BY <1>4 DEF SC!OnInit
<1>5. CASE SC!SetRunning
  BY <1>5 DEF SC!SetRunning
<1>6. CASE SC!ConsoleStart
  BY <1>6 DEF SC!ConsoleStart
<1>7. CASE SC!Initialise
  BY <1>7 DEF SC!Initialise
<1>8. CASE SC!Wait
  BY <1>8 DEF SC!Wait
<1>9. CASE SC!Shutdown
  BY <1>9 DEF SC!Shutdown
<1>10. CASE SC!AwaitServer
  BY <1>10 DEF SC!AwaitServer
<1>11. CASE SC!StopLogger
  BY <1>11 DEF SC!StopLogger
<1>12. CASE SC!AwaitLogger
  BY <1>12 DEF SC!AwaitLogger
<1>13. CASE SC!Final
  BY <1>13 DEF SC!Final
<1>14. CASE SC!ConsoleEnd
  BY <1>14 DEF SC!ConsoleEnd
<1>15. CASE SC!StopPending
  BY <1>15 DEF SC!StopPending
<1>16. CASE SC!TellPending
  BY <1>16 DEF SC!TellPending
<1>17. CASE SC!ClearRunning
  BY <1>17 DEF SC!ClearRunning
<1>18. CASE SC!SetStopEvent
  BY <1>18 DEF SC!SetStopEvent
<1>19. CASE SC!TellStatus
  BY <1>19 DEF SC!TellStatus
<1>20. CASE SC!Destroy
  BY <1>20 DEF SC!Destroy
<1>21. CASE SC!Exit
  BY <1>21 DEF SC!Exit
<1>22. CASE SC!Stop
  BY <1>22 DEF SC!Stop
<1>23. CASE SC!Interrogate
  BY <1>23 DEF SC!Interrogate
<1>24. CASE SC!SignalPipe
  BY <1>24 DEF SC!SignalPipe
<1>25. CASE SC!ServerStops
  BY <1>25 DEF SC!ServerStops
<1>26. CASE SC!ServerFails
  BY <1>26 DEF SC!ServerFails
<1>27. CASE SC!LoggerEnds
  BY <1>27 DEF SC!LoggerEnds
<1>28. CASE UNCHANGED SC!vars
  BY <1>28 DEF SC!vars
<1> QED
  BY <1>1, <1>2, <1>3, <1>4, <1>5, <1>6, <1>7, <1>8, <1>9, <1>10, <1>11, <1>12, <1>13, <1>14,
     <1>15, <1>16, <1>17, <1>18, <1>19, <1>20, <1>21, <1>22, <1>23, <1>24, <1>25, <1>26,
     <1>27, <1>28, 
     Zenon DEF SC!Next, SC!ServiceMain, SC!Dispatcher

LEMMA FlagsStep == ASSUME ControlFlags, [SC!Next]_SC!vars PROVE ControlFlags'
<1> USE DEF ControlFlags, SC!Main, SC!Report, SC!SetStatus, SC!Handler, SC!modes, SC!history
<1>1. CASE SC!Tell
  BY <1>1, Zenon DEF SC!Tell
<1>2. CASE SC!Register
  BY <1>2, Zenon DEF SC!Register
<1>3. CASE SC!Pending
  BY <1>3, Zenon DEF SC!Pending
<1>4. CASE SC!OnInit
  BY <1>4, Zenon DEF SC!OnInit
<1>5. CASE SC!SetRunning
  BY <1>5, Zenon DEF SC!SetRunning
<1>6. CASE SC!ConsoleStart
  BY <1>6, Zenon DEF SC!ConsoleStart
<1>7. CASE SC!Initialise
  BY <1>7, Zenon DEF SC!Initialise
<1>8. CASE SC!Wait
  BY <1>8, Zenon DEF SC!Wait
<1>9. CASE SC!Shutdown
  BY <1>9, Zenon DEF SC!Shutdown
<1>10. CASE SC!AwaitServer
  BY <1>10, Zenon DEF SC!AwaitServer
<1>11. CASE SC!StopLogger
  BY <1>11, Zenon DEF SC!StopLogger
<1>12. CASE SC!AwaitLogger
  BY <1>12, Zenon DEF SC!AwaitLogger
<1>13. CASE SC!Final
  BY <1>13, Zenon DEF SC!Final
<1>14. CASE SC!ConsoleEnd
  BY <1>14, Zenon DEF SC!ConsoleEnd
<1>15. CASE SC!StopPending
  BY <1>15, Zenon DEF SC!StopPending
<1>16. CASE SC!TellPending
  BY <1>16, Zenon DEF SC!TellPending
<1>17. CASE SC!ClearRunning
  BY <1>17, Zenon DEF SC!ClearRunning
<1>18. CASE SC!SetStopEvent
  BY <1>18, Zenon DEF SC!SetStopEvent
<1>19. CASE SC!TellStatus
  BY <1>19, Zenon DEF SC!TellStatus
<1>20. CASE SC!Destroy
  BY <1>20, Zenon DEF SC!Destroy
<1>21. CASE SC!Exit
  BY <1>21, Zenon DEF SC!Exit
<1>22. CASE SC!Stop
  BY <1>22, Zenon DEF SC!Stop
<1>23. CASE SC!Interrogate
  BY <1>23, Zenon DEF SC!Interrogate
<1>24. CASE SC!SignalPipe
  BY <1>24, Zenon DEF SC!SignalPipe
<1>25. CASE SC!ServerStops
  BY <1>25, Zenon DEF SC!ServerStops
<1>26. CASE SC!ServerFails
  BY <1>26, Zenon DEF SC!ServerFails
<1>27. CASE SC!LoggerEnds
  BY <1>27, Zenon DEF SC!LoggerEnds
<1>28. CASE UNCHANGED SC!vars
  BY <1>28, Zenon DEF SC!vars
<1> QED
  BY <1>1, <1>2, <1>3, <1>4, <1>5, <1>6, <1>7, <1>8, <1>9, <1>10, <1>11, <1>12, <1>13, <1>14,
     <1>15, <1>16, <1>17, <1>18, <1>19, <1>20, <1>21, <1>22, <1>23, <1>24, <1>25, <1>26,
     <1>27, <1>28, 
     Zenon DEF SC!Next, SC!ServiceMain, SC!Dispatcher

LEMMA ControlTypeStep ==
  ASSUME SC!TypeOK, ControlInv', [SC!Next]_SC!vars PROVE SC!TypeOK'
<1>1. HandlerPlaces /\ StatusPlaces /\ ThreadPlaces /\ ControlFlags
  BY DEF SC!TypeOK, HandlerPlaces, StatusPlaces, ThreadPlaces, ControlFlags
<1>2. ControlTypes'
  BY DEF ControlInv
<1>3. HandlerPlaces' /\ StatusPlaces' /\ ThreadPlaces' /\ ControlFlags'
  BY <1>1, HandlerStep, StatusStep, ThreadPlaceStep, FlagsStep
<1> QED
  BY <1>2, <1>3, Zenon
  DEF ControlTypes, HandlerPlaces, StatusPlaces, ThreadPlaces, ControlFlags, SC!TypeOK

PartTypes == TypeOK /\ SC!TypeOK /\ SK!TypeOK /\ ST!TypeOK /\ WipeInv

LEMMA PartTypesInit ==
  ASSUME MaxLines \in Nat, Init, SC!Init, SK!Init, ST!Init, MX!Init
  PROVE  PartTypes
<1>1. TypeOK
  <2>1. <<>> \in Seq(Nat) /\ 0 \in 0 .. MaxLines /\ -1 \in -1 .. MaxLines
    OBVIOUS
  <2>2. ppc \in [Pushers -> {"idle", "signal"}]
    BY DEF Init
  <2> QED
    BY <2>1, <2>2 DEF Init, TypeOK
<1>2. SC!TypeOK
  BY DEF SC!Init, SC!TypeOK, SC!MainAt, SC!States
<1>3. SK!TypeOK
  BY DEF SK!Init, SK!SpinInit, SK!RwInit, SK!TypeOK, SK!Steps, SK!Owners
<1>4. ST!TypeOK
  BY DEF ST!Init, ST!TypeOK, ST!CallerSteps, ST!ThreadSteps
<1>5. WipeInv
  BY DEF MX!Init, WipeInv, Initialising
<1> QED
  BY <1>1, <1>2, <1>3, <1>4, <1>5 DEF PartTypes

-----------------------------------------------------------------------------
(* SocketShare.                                                            *)

\* Proofs count conditions.
One(condition) == IF condition THEN 1 ELSE 0

\* A call is being answered; what it wrote is on the wire or taken.
Written == ssPpc \in {"reset", "signal", "await"}
Calls == asked = yes + no + One(ssPpc \notin {"idle", "closed"})

\* A client at the pipe is past OpenPipe.
Past == ssCpc \notin {"none", "suspended", "start", "open"}
Joined == (Written \/ pipe = "connected") => Past

\* Nothing is taken that no call wrote.
Descriptions == taken + wire <= yes + no + One(Written)

\* childEvent, once it has been reset, answers for a description that no earlier success
\* has counted, and so does a client that is about to set it.
Fresh == ssPpc \in {"signal", "await"} /\ childEvent
Answers == yes + One(Fresh) + One(ssCpc = "answer") <= taken

\* A parentEvent that is to be set, is set or is to be reset stands for a description on
\* the wire, and what the server waits for is on the wire, about to be answered, or answered:
\* both as long as no client has read before it was told to.
Announced ==
  ~early => wire >= One(ssPpc \in {"reset", "signal"}) + One(ssCpc \in {"unset", "read"})
                      + One(parentEvent /\ ssCpc # "unset")
Promised ==
  (~early /\ ssPpc \in {"signal", "await"} /\ ~childEvent /\ ssCpc # "ended")
     => wire > 0 \/ ssCpc = "answer"

HandoverInv == SS!TypeOK /\ Calls /\ Joined /\ Descriptions /\ Answers /\ Announced /\ Promised

LEMMA HandoverInit == ASSUME SS!Init PROVE HandoverInv
<1>1. SS!TypeOK
  <2>1. ssPpc \in SS!ServerAt /\ ssCpc \in SS!ClientAt
    BY DEF SS!Init, SS!ServerAt, SS!ClientAt
  <2>2. wire \in Nat /\ taken \in Nat /\ asked \in Nat /\ yes \in Nat /\ no \in Nat
    BY DEF SS!Init
  <2>3. parentEvent \in BOOLEAN /\ childEvent \in BOOLEAN /\ early \in BOOLEAN
    BY Zenon DEF SS!Init
  <2> QED
    BY <2>1, <2>2, <2>3 DEF SS!TypeOK, SS!Init
<1> QED
  BY <1>1 DEF SS!Init, HandoverInv, Calls, Joined, Written, Past, Descriptions, Answers, Fresh,
     One,
     Announced, Promised

LEMMA HandoverStep == ASSUME HandoverInv, [SS!Next]_SS!vars PROVE HandoverInv'
<1> USE DEF HandoverInv, SS!TypeOK, SS!ServerAt, SS!ClientAt, SS!events, SS!answers
<1> USE DEF Calls, Joined, Written, Past, Descriptions, Answers, Fresh, One,
     Announced, Promised
<1>1. CASE SS!Publish
  BY <1>1 DEF SS!Publish
<1>2. CASE SS!PushFails
  <2>1. ssPpc = "push" /\ SS!Failure /\ UNCHANGED <<ssCpc, pipe, wire, SS!events, taken, early>>
    BY <1>2, Zenon DEF SS!PushFails
  <2> QED
    BY <2>1 DEF SS!Failure
<1>3. CASE SS!Push
  <2>1. /\ ssPpc = "push" /\ pipe' = "listening"
        /\ \/ ssCpc' = "start" /\ ssPpc' = "connect" /\ UNCHANGED SS!answers
           \/ ssCpc' = "suspended" /\ SS!Failure
        /\ UNCHANGED <<wire, SS!events, taken, early>>
    BY <1>3, Zenon DEF SS!Push
  <2> QED
    BY <2>1 DEF SS!Failure
<1>4. CASE SS!Connected
  BY <1>4 DEF SS!Connected
<1>5. CASE SS!NotConnected
  BY <1>5 DEF SS!NotConnected, SS!Failure
<1>6. CASE SS!Clone
  <2>1. /\ ssPpc = "clone"
        /\ \/ ssCpc # "ended" /\ ssPpc' = "write" /\ UNCHANGED SS!answers
           \/ SS!Failure
        /\ UNCHANGED <<ssCpc, pipe, wire, SS!events, taken, early>>
    BY <1>6, Zenon DEF SS!Clone
  <2> QED
    BY <2>1 DEF SS!Failure
<1>7. CASE SS!Write
  BY <1>7 DEF SS!Write, SS!Failure
<1>8. CASE SS!ResetChildEvent
  <2>1. Promised'
    BY <1>8 DEF SS!ResetChildEvent
  <2>2. SS!TypeOK' /\ Calls' /\ Joined' /\ Descriptions' /\ Announced'
    BY <1>8 DEF SS!ResetChildEvent
  <2>3. Answers'
    BY <1>8 DEF SS!ResetChildEvent
  <2> QED
    BY <2>1, <2>2, <2>3
<1>9. CASE SS!SetParentEvent
  BY <1>9 DEF SS!SetParentEvent
<1>10. CASE SS!Answered
  BY <1>10 DEF SS!Answered, SS!Success
<1>11. CASE SS!NotAnswered
  BY <1>11 DEF SS!NotAnswered, SS!Failure
<1>12. CASE SS!Close
  BY <1>12 DEF SS!Close
<1>13. CASE SS!OpenEvents
  BY <1>13 DEF SS!OpenEvents
<1>14. CASE SS!OpenPipe
  BY <1>14 DEF SS!OpenPipe
<1>15. CASE SS!Signalled
  BY <1>15 DEF SS!Signalled
<1>16. CASE SS!TimedOut
  BY <1>16 DEF SS!TimedOut
<1>17. CASE SS!ResetParentEvent
  BY <1>17 DEF SS!ResetParentEvent
<1>18. CASE SS!Read
  BY <1>18 DEF SS!Read
<1>19. CASE SS!Answer
  <2>1. /\ ssCpc = "answer" /\ childEvent' = TRUE
        /\ (ssCpc' = "have" /\ UNCHANGED pipe) \/ SS!Leave
        /\ UNCHANGED <<ssPpc, wire, parentEvent, SS!answers, taken, early>>
    BY <1>19, Zenon DEF SS!Answer
  <2> QED
    BY <2>1 DEF SS!Leave
<1>20. CASE SS!WaitAgain
  BY <1>20 DEF SS!WaitAgain
<1>21. CASE SS!End
  <2>1. /\ ssCpc \notin {"none", "suspended", "ended"} /\ SS!Leave
        /\ UNCHANGED <<ssPpc, wire, SS!events, SS!answers, taken, early>>
    BY <1>21, Zenon DEF SS!End
  <2> QED
    BY <2>1 DEF SS!Leave
<1>22. CASE UNCHANGED SS!vars
  BY <1>22 DEF SS!vars
<1> QED
  BY <1>1, <1>2, <1>3, <1>4, <1>5, <1>6, <1>7, <1>8, <1>9, <1>10, <1>11, <1>12, <1>13, <1>14,
     <1>15,
     <1>16, <1>17, <1>18, <1>19, <1>20, <1>21, <1>22 DEF SS!Next, SS!Server, SS!Client

LEMMA InvAnswer == HandoverInv => SS!AnswerKept
BY DEF HandoverInv, Promised, SS!AnswerKept, SS!TypeOK

LEMMA HandoverMaps == ASSUME HandoverInv, [SS!Next]_SS!vars PROVE [SS!H!Next]_(SS!H!vars)
<1> USE DEF HandoverInv, SS!TypeOK, SS!ServerAt, SS!ClientAt, SS!events, SS!answers, Calls,
   Answers, Fresh, One
<1> USE DEF SS!H!vars, SS!H!Next, SS!H!Ask, SS!H!Take, SS!H!Yes, SS!H!No, SS!H!Busy, SS!Success,
   SS!Failure
<1>1. CASE UNCHANGED <<SS!answers, taken>>
  BY <1>1
<1>2. CASE SS!Publish
  BY <1>2 DEF SS!Publish
<1>3. ASSUME SS!Failure, ssPpc \notin {"idle", "closed"}, UNCHANGED taken PROVE SS!H!No
  BY <1>3
<1>4. CASE SS!Answered
  BY <1>4 DEF SS!Answered
<1>5. CASE SS!Read
  BY <1>5 DEF SS!Read, Descriptions, Written
<1>6. CASE SS!PushFails \/ SS!Push \/ SS!NotConnected \/ SS!Clone \/ SS!Write \/ SS!NotAnswered
  <2>1. ssPpc \notin {"idle", "closed"}
    BY <1>6, Zenon DEF SS!PushFails, SS!Push, SS!NotConnected, SS!Clone, SS!Write,
       SS!NotAnswered
  <2>2. UNCHANGED taken /\ (SS!Failure \/ UNCHANGED SS!answers)
    BY <1>6, Zenon DEF SS!PushFails, SS!Push, SS!NotConnected, SS!Clone, SS!Write,
       SS!NotAnswered
  <2> QED
    BY <1>1, <1>3, <2>1, <2>2, Zenon
<1> QED
  <2>1. CASE SS!Server
    BY <2>1, <1>1, <1>4, <1>6, Zenon DEF SS!Server, SS!Connected, SS!ResetChildEvent,
       SS!SetParentEvent
  <2>2. CASE SS!Client
    BY <2>2, <1>1, <1>5, Zenon DEF SS!Client, SS!OpenEvents, SS!OpenPipe, SS!Signalled,
       SS!TimedOut,
       SS!ResetParentEvent, SS!Answer, SS!WaitAgain
  <2> QED
    BY <2>1, <2>2, <1>1, <1>2, Zenon DEF SS!Next, SS!Close, SS!End, SS!vars

\* WriteSocket() and the child's ReadSocket() implement Handover's safety: publish() returns
\* true no more often than a child has taken a socket off the pipe, and every call is
\* answered once, for any number of sockets and any of the faults.
THEOREM HandoverSafety == SS!Spec => SS!H!Safety
<1>1. SS!Init => SS!H!Init
  BY DEF SS!Init, SS!H!Init
<1> QED
  BY <1>1, HandoverInit, HandoverStep, HandoverMaps, PTL DEF SS!Spec, SS!H!Safety

-----------------------------------------------------------------------------
(* RwLock.                                                                 *)

\* What is assumed of the constants.
LockSound == IsFiniteSet(Threads) /\ Nobody \notin Threads

Owning    == {"rdenter", "wrcheck", "wrwait", "wrset", "wrstatus", "writing", "wrunlock", "wrdrop"}
Excluding == {"wrstatus", "writing", "wrunlock", "wrdrop"}
Entered   == {"rdstatus", "reading", "rdunlock", "rddrop"}
Inside    == {"reading", "rdunlock"}
Alone     == {"writing", "wrunlock"}

\* The owner of a critical section is where it has entered and not left it.
Owners == \A t \in Threads :
  /\ writeLock = t <=> pc[t] \in Owning
  /\ readerLock = t <=> pc[t] = "rdsignal"

Number(S) == Cardinality(RL!At(S))

\* readers is the number of threads that have counted themselves, and -99 from the moment
\* a writer has seen that there are none.
Readers ==
  /\ Number(Excluding) = 0 => readers = Number(Entered)
  /\ Number(Excluding) # 0 => readers = -99 /\ Number(Entered) = 0

\* status is the number of those inside, and -1 of a writer.
Status ==
  /\ Number(Alone) = 0 => status = Number(Inside)
  /\ Number(Alone) # 0 => status = -1

\* The event says that nobody is counted; the last reader says so while it holds
\* reader_lock, and so does a writer that need not wait any more.
Sure == {"rdsignal", "wrset"}
Empty == noreader \/ Number(Sure) # 0 => Number(Entered) = 0

LockInv == RL!TypeOK /\ Owners /\ Readers /\ Status /\ Empty

(* Where the threads are, when one of them takes a step.                   *)

LEMMA AtFinite ==
  ASSUME LockSound, NEW S
  PROVE  IsFiniteSet(RL!At(S)) /\ Number(S) \in Nat /\ (Number(S) = 0 <=> RL!At(S) = {})
<1>1. RL!At(S) \in SUBSET Threads
  BY DEF RL!At
<1>2. IsFiniteSet(RL!At(S))
  BY <1>1, FS_Subset DEF LockSound
<1> QED
  BY <1>2, FS_CardinalityType, FS_EmptySet DEF Number

LEMMA AtMoves ==
  ASSUME LockSound, pc \in [Threads -> RL!Steps], NEW t \in Threads,
         NEW from \in RL!Steps, NEW to \in RL!Steps, RL!Step(t, from, to), NEW S
  PROVE  Number(S)' = Number(S) + One(to \in S) - One(from \in S)
<1>1. RL!At(S)' = IF to \in S THEN RL!At(S) \cup {t} ELSE RL!At(S) \ {t}
  BY DEF RL!Step, RL!At
<1>2. t \in RL!At(S) <=> from \in S
  BY DEF RL!Step, RL!At
<1>3. IsFiniteSet(RL!At(S)) /\ Cardinality(RL!At(S)) \in Nat
  BY AtFinite DEF Number
<1>4. CASE to \in S
  <2>1. Cardinality(RL!At(S)') = IF t \in RL!At(S) THEN Cardinality(RL!At(S)) ELSE Cardinality(RL!At(S)) + 1
    BY <1>1, <1>3, <1>4, FS_AddElement
  <2> QED
    BY <1>1, <1>2, <1>3, <1>4, <2>1 DEF One, Number
<1>5. CASE to \notin S
  <2>1. Cardinality(RL!At(S)') = IF t \in RL!At(S) THEN Cardinality(RL!At(S)) - 1 ELSE Cardinality(RL!At(S))
    BY <1>1, <1>3, <1>5, FS_RemoveElement
  <2> QED
    BY <1>1, <1>2, <1>3, <1>5, <2>1 DEF One, Number
<1> QED
  BY <1>4, <1>5

LEMMA AtSubset == ASSUME LockSound, NEW S, NEW T \in SUBSET S PROVE Number(T) <= Number(S)
<1>1. RL!At(T) \in SUBSET RL!At(S)
  BY DEF RL!At
<1> QED
  BY <1>1, AtFinite, FS_Subset DEF Number

\* Where the threads can be at the same time.
LEMMA Together ==
  ASSUME LockSound, RL!TypeOK, Owners
  PROVE  /\ Number(Inside) <= Number(Entered) /\ Number(Alone) <= Number(Excluding)
         /\ Number(Excluding) <= 1
         /\ \A S \in {Excluding, Entered, Inside, Alone, Sure} : Number(S) \in Nat
         /\ \A t \in Threads :
              /\ \A S : pc[t] \in S => Number(S) >= 1
              /\ pc[t] \in Owning \ Excluding => Number(Excluding) = 0
              /\ pc[t] = "rdenter" /\ readerLock = Nobody => Number(Sure) = 0
<1>1. Number(Inside) <= Number(Entered) /\ Number(Alone) <= Number(Excluding)
  BY AtSubset DEF Inside, Entered, Alone, Excluding
<1>2. \A t, u \in Threads : pc[t] \in Owning /\ pc[u] \in Owning => t = u
  BY DEF Owners
<1>3. Number(Excluding) <= 1
  <2>1. CASE RL!At(Excluding) = {}
    BY <2>1, AtFinite
  <2>2. CASE RL!At(Excluding) # {}
    <3>1. PICK t \in Threads : pc[t] \in Excluding
      BY <2>2 DEF RL!At
    <3>2. RL!At(Excluding) \subseteq {t}
      BY <1>2, <3>1 DEF RL!At, Excluding, Owning
    <3> QED
      <4>1. IsFiniteSet({t}) /\ Cardinality({t}) = 1
        BY FS_Singleton
      <4> QED
        BY <3>2, <4>1, FS_Subset DEF Number
  <2> QED
    BY <2>1, <2>2
<1>4. \A S : Number(S) \in Nat
  BY AtFinite
<1>5. ASSUME NEW t \in Threads, NEW S, pc[t] \in S PROVE Number(S) >= 1
  <2>1. RL!At(S) # {}
    BY <1>5 DEF RL!At
  <2> QED
    BY <2>1, AtFinite
<1>6. ASSUME NEW t \in Threads, pc[t] \in Owning \ Excluding PROVE Number(Excluding) = 0
  <2>1. RL!At(Excluding) = {}
    BY <1>2, <1>6 DEF RL!At, Excluding, Owning
  <2> QED
    BY <2>1, AtFinite
<1>7. ASSUME NEW t \in Threads, pc[t] = "rdenter", readerLock = Nobody PROVE Number(Sure) = 0
  <2>1. RL!At(Sure) = {}
    BY <1>2, <1>7 DEF RL!At, Sure, Owning, Owners, LockSound
  <2> QED
    BY <2>1, AtFinite
<1> QED
  BY <1>1, <1>3, <1>4, <1>5, <1>6, <1>7

\* What status says to rwlock_unlock(), and to the assertions.
LEMMA StatusSays ==
  ASSUME LockSound, LockInv, NEW t \in Threads
  PROVE  /\ pc[t] \in Inside => status > 0
         /\ pc[t] \in Alone => status = -1
<1>1. CASE pc[t] \in Inside
  <2>1. Number(Inside) >= 1 /\ Number(Entered) >= 1 /\ Number(Inside) \in Nat
        /\ Number(Alone) \in Nat /\ Number(Alone) <= Number(Excluding) /\ Number(Excluding) \in Nat
    BY <1>1, Together DEF LockInv, Inside, Entered
  <2>2. Number(Excluding) = 0 /\ Number(Alone) = 0
    BY <2>1 DEF LockInv, Readers
  <2>3. status = Number(Inside)
    BY <2>2 DEF LockInv, Status
  <2> QED
    BY <1>1, <2>1, <2>3 DEF Inside, Alone
<1>2. CASE pc[t] \in Alone
  <2>1. Number(Alone) >= 1
    BY <1>2, Together DEF LockInv
  <2> QED
    BY <1>2, <2>1 DEF LockInv, Status, Inside, Alone
<1> QED
  BY <1>1, <1>2

LEMMA UnlockGoesBack ==
  ASSUME LockSound, LockInv, NEW t \in Threads, RL!Unlock(t)
  PROVE  RL!Step(t, "reading", "rdunlock") \/ RL!Step(t, "writing", "wrunlock")
<1>1. /\ pc[t] = "reading" => status > 0
      /\ pc[t] = "writing" => status = -1
  BY StatusSays DEF Inside, Alone
<1>2. status \in Int
  BY DEF LockInv, RL!TypeOK
<1>3. PICK held \in {"reading", "writing"} :
        RL!Step(t, held, IF status < 0 THEN "wrunlock" ELSE "rdunlock")
  BY DEF RL!Unlock
<1>4. pc[t] = held
  BY <1>3 DEF RL!Step
<1>5. CASE held = "reading"
  <2>1. ~(status < 0)
    BY <1>1, <1>2, <1>4, <1>5
  <2> QED
    BY <1>3, <1>5, <2>1, Zenon
<1>6. CASE held = "writing"
  <2>1. status < 0
    BY <1>1, <1>2, <1>4, <1>6
  <2> QED
    BY <1>3, <1>6, <2>1, Zenon
<1> QED
  BY <1>5, <1>6

LEMMA LockInit == ASSUME LockSound, RL!Init PROVE LockInv
<1>1. RL!TypeOK /\ Owners
  BY DEF LockSound, RL!Init, RL!TypeOK, RL!Steps, Owners, Owning
<1>2. RL!At(Excluding) = {} /\ RL!At(Entered) = {} /\ RL!At(Inside) = {} /\ RL!At(Alone) = {}
  BY DEF RL!Init, RL!At, Excluding, Entered, Inside, Alone
<1> QED
  BY <1>1, <1>2, FS_EmptySet DEF RL!Init, LockInv, Readers, Status, Empty, Number

LEMMA OwnersStep ==
  ASSUME LockSound, LockInv, NEW t \in Threads, RL!Begin(t) \/ RL!Continue(t)
  PROVE  RL!TypeOK' /\ Owners'
<1> USE DEF LockSound, LockInv, RL!TypeOK, RL!Steps, Owners, Owning, RL!Step
<1>1. CASE RL!Begin(t)
  BY <1>1 DEF RL!Begin
<1>2. CASE RL!RdLock(t)
  BY <1>2 DEF RL!RdLock
<1>3. CASE RL!RdEnter(t)
  BY <1>3 DEF RL!RdEnter
<1>4. CASE RL!RdStatus(t)
  BY <1>4 DEF RL!RdStatus
<1>5. CASE RL!Unlock(t)
  BY <1>5, UnlockGoesBack DEF RL!Unlock
<1>6. CASE RL!RdUnlock(t)
  BY <1>6 DEF RL!RdUnlock
<1>7. CASE RL!RdDrop(t)
  BY <1>7 DEF RL!RdDrop
<1>8. CASE RL!RdSignal(t)
  BY <1>8 DEF RL!RdSignal
<1>9. CASE RL!WrLock(t)
  BY <1>9 DEF RL!WrLock
<1>10. CASE RL!WrCheck(t)
  BY <1>10 DEF RL!WrCheck
<1>11. CASE RL!WrWait(t)
  BY <1>11 DEF RL!WrWait
<1>12. CASE RL!WrSet(t)
  BY <1>12 DEF RL!WrSet
<1>13. CASE RL!WrStatus(t)
  BY <1>13 DEF RL!WrStatus
<1>14. CASE RL!WrUnlock(t)
  BY <1>14 DEF RL!WrUnlock
<1>15. CASE RL!WrDrop(t)
  BY <1>15 DEF RL!WrDrop
<1> QED
  BY <1>1, <1>2, <1>3, <1>4, <1>5, <1>6, <1>7, <1>8, <1>9, <1>10, <1>11, <1>12, <1>13, <1>14,
     <1>15 DEF RL!Continue

\* The numbers of threads in each place change by what is said.
Changes(e, c, i, a, r) ==
  /\ Number(Excluding)' = Number(Excluding) + e
  /\ Number(Entered)' = Number(Entered) + c
  /\ Number(Inside)' = Number(Inside) + i
  /\ Number(Alone)' = Number(Alone) + a
  /\ Number(Sure)' = Number(Sure) + r

LEMMA StepChanges ==
  ASSUME LockSound, RL!TypeOK, NEW t \in Threads, NEW from \in RL!Steps, NEW to \in RL!Steps, RL!Step(t, from, to)
  PROVE  Changes(One(to \in Excluding) - One(from \in Excluding),
                 One(to \in Entered) - One(from \in Entered),
                 One(to \in Inside) - One(from \in Inside),
                 One(to \in Alone) - One(from \in Alone),
                 One(to \in Sure) - One(from \in Sure))
<1>1. \A S : Number(S)' = Number(S) + One(to \in S) - One(from \in S)
  BY AtMoves DEF RL!TypeOK
<1>2. \A S : Number(S) \in Nat
  BY AtFinite
<1>3. \A condition : One(condition) \in {0, 1}
  BY DEF One
<1> QED
  BY <1>1, <1>2, <1>3 DEF Changes

LEMMA CountsStep ==
  ASSUME LockSound, LockInv, NEW t \in Threads, RL!Begin(t) \/ RL!Continue(t)
  PROVE  Readers' /\ Status' /\ Empty'
<1>1. RL!TypeOK /\ Owners /\ Readers /\ Status /\ Empty
  BY DEF LockInv
<1>2. /\ Number(Inside) <= Number(Entered) /\ Number(Alone) <= Number(Excluding)
      /\ Number(Excluding) <= 1
      /\ Number(Excluding) \in Nat /\ Number(Entered) \in Nat /\ Number(Inside) \in Nat
      /\ Number(Alone) \in Nat /\ Number(Sure) \in Nat
      /\ pc[t] \in Owning \ Excluding => Number(Excluding) = 0
      /\ pc[t] = "rdenter" /\ readerLock = Nobody => Number(Sure) = 0
      /\ \A S : pc[t] \in S => Number(S) >= 1
  BY <1>1, Together
<1>3. readers \in Int /\ status \in Int /\ pc[t] \in RL!Steps
  BY <1>1 DEF RL!TypeOK
<1> USE DEF Readers, Status, Empty
<1>5. CASE RL!Begin(t)
  <2>1. Changes(0, 0, 0, 0, 0)
    BY <1>1, <1>5, StepChanges DEF RL!Begin, RL!Steps, One, Excluding, Entered, Inside, Alone,
       Sure
  <2> QED
    BY <1>1, <1>2, <1>3, <1>5, <2>1 DEF RL!Begin, Changes
<1>6. CASE RL!RdEnter(t)
  <2>1. pc[t] = "rdenter" /\ RL!Step(t, "rdenter", "rdstatus")
    BY <1>6 DEF RL!RdEnter, RL!Step
  <2>2. Changes(0, 1, 0, 0, 0)
    BY <1>1, <2>1, StepChanges DEF RL!Steps, One, Excluding, Entered, Inside, Alone, Sure
  <2>3. Number(Excluding) = 0 /\ Number(Sure) = 0
    BY <1>2, <1>6, <2>1 DEF RL!RdEnter, Owning, Excluding
  <2>4. noreader' => noreader /\ readers' # 1
    BY <1>6, Zenon DEF RL!RdEnter
  <2>5. readers' = readers + 1 /\ UNCHANGED status
    BY <1>6 DEF RL!RdEnter
  <2> QED
    BY <1>1, <1>2, <1>3, <2>2, <2>3, <2>4, <2>5 DEF Changes
<1>7. CASE RL!RdStatus(t)
  <2>1. RL!Step(t, "rdstatus", "reading") /\ Number(Entered) >= 1
    BY <1>2, <1>7 DEF RL!RdStatus, RL!Step, Entered
  <2>2. Changes(0, 0, 1, 0, 0)
    BY <1>1, <2>1, StepChanges DEF RL!Steps, One, Excluding, Entered, Inside, Alone, Sure
  <2> QED
    BY <1>1, <1>2, <1>3, <1>7, <2>1, <2>2 DEF RL!RdStatus, Changes
<1>8. CASE RL!Unlock(t)
  <2>1. Changes(0, 0, 0, 0, 0)
    BY <1>1, <1>8, UnlockGoesBack, StepChanges DEF RL!Steps, One, Excluding, Entered, Inside,
       Alone, Sure
  <2> QED
    BY <1>1, <1>2, <1>3, <1>8, <2>1 DEF RL!Unlock, Changes
<1>9. CASE RL!RdUnlock(t)
  <2>1. RL!Step(t, "rdunlock", "rddrop") /\ Number(Entered) >= 1
    BY <1>2, <1>9 DEF RL!RdUnlock, RL!Step, Entered
  <2>2. Changes(0, 0, 0 - 1, 0, 0)
    BY <1>1, <2>1, StepChanges DEF RL!Steps, One, Excluding, Entered, Inside, Alone, Sure
  <2> QED
    BY <1>1, <1>2, <1>3, <1>9, <2>1, <2>2 DEF RL!RdUnlock, Changes
<1>10. CASE RL!RdDrop(t)
  <2>1. pc[t] = "rddrop" /\ Number(Entered) >= 1
    BY <1>2, <1>10 DEF RL!RdDrop, RL!Step, Entered
  <2>2. CASE readers = 1
    <3>1. RL!Step(t, "rddrop", "rdsignal")
      BY <1>10, <2>2 DEF RL!RdDrop
    <3>2. Changes(0, 0 - 1, 0, 0, 1)
      BY <1>1, <3>1, StepChanges DEF RL!Steps, One, Excluding, Entered, Inside, Alone, Sure
    <3> QED
      BY <1>1, <1>2, <1>3, <1>10, <2>1, <2>2, <3>2 DEF RL!RdDrop, Changes
  <2>3. CASE readers # 1
    <3>1. RL!Step(t, "rddrop", "idle")
      BY <1>10, <2>3 DEF RL!RdDrop
    <3>2. Changes(0, 0 - 1, 0, 0, 0)
      BY <1>1, <3>1, StepChanges DEF RL!Steps, One, Excluding, Entered, Inside, Alone, Sure
    <3> QED
      BY <1>1, <1>2, <1>3, <1>10, <2>1, <2>3, <3>2 DEF RL!RdDrop, Changes
  <2> QED
    BY <2>2, <2>3
<1>11. CASE RL!RdSignal(t)
  <2>1. RL!Step(t, "rdsignal", "idle") /\ Number(Sure) >= 1
    BY <1>2, <1>11 DEF RL!RdSignal, RL!Step, Sure
  <2>2. Changes(0, 0, 0, 0, 0 - 1)
    BY <1>1, <2>1, StepChanges DEF RL!Steps, One, Excluding, Entered, Inside, Alone, Sure
  <2> QED
    BY <1>1, <1>2, <1>3, <1>11, <2>1, <2>2 DEF RL!RdSignal, Changes
<1>12. CASE RL!RdLock(t)
  <2>1. RL!Step(t, "rdlock", "rdenter")
    BY <1>12 DEF RL!RdLock
  <2>2. Changes(0, 0, 0, 0, 0)
    BY <1>1, <2>1, StepChanges DEF RL!Steps, One, Excluding, Entered, Inside, Alone, Sure
  <2> QED
    BY <1>1, <1>2, <1>3, <1>12, <2>2 DEF RL!RdLock, Changes
<1>13. CASE RL!WrLock(t)
  <2>1. RL!Step(t, "wrlock", "wrcheck")
    BY <1>13 DEF RL!WrLock
  <2>2. Changes(0, 0, 0, 0, 0)
    BY <1>1, <2>1, StepChanges DEF RL!Steps, One, Excluding, Entered, Inside, Alone, Sure
  <2> QED
    BY <1>1, <1>2, <1>3, <1>13, <2>2 DEF RL!WrLock, Changes
<1>14. CASE RL!WrCheck(t)
  <2>1. Number(Excluding) = 0
    BY <1>2, <1>14 DEF RL!WrCheck, RL!Step, Owning, Excluding
  <2>2. CASE readers > 0
    <3>1. Changes(0, 0, 0, 0, 0)
      BY <1>1, <1>14, <2>2, StepChanges
         DEF RL!WrCheck, RL!Steps, One, Excluding, Entered, Inside, Alone, Sure
    <3> QED
      BY <1>1, <1>2, <1>3, <1>14, <3>1 DEF RL!WrCheck, Changes
  <2>3. CASE ~(readers > 0)
    <3>1. Changes(0, 0, 0, 0, 1)
      BY <1>1, <1>14, <2>3, StepChanges
         DEF RL!WrCheck, RL!Steps, One, Excluding, Entered, Inside, Alone, Sure
    <3> QED
      BY <1>1, <1>2, <1>3, <1>14, <2>1, <2>3, <3>1 DEF RL!WrCheck, Changes
  <2> QED
    BY <2>2, <2>3
<1>15. CASE RL!WrWait(t)
  <2>1. RL!Step(t, "wrwait", "wrset")
    BY <1>15 DEF RL!WrWait
  <2>2. Changes(0, 0, 0, 0, 1)
    BY <1>1, <2>1, StepChanges DEF RL!Steps, One, Excluding, Entered, Inside, Alone, Sure
  <2> QED
    BY <1>1, <1>2, <1>3, <1>15, <2>2 DEF RL!WrWait, Changes
<1>16. CASE RL!WrSet(t)
  <2>1. RL!Step(t, "wrset", "wrstatus") /\ Number(Excluding) = 0 /\ Number(Sure) >= 1
    BY <1>2, <1>16 DEF RL!WrSet, RL!Step, Owning, Excluding, Sure
  <2>2. Changes(1, 0, 0, 0, 0 - 1)
    BY <1>1, <2>1, StepChanges DEF RL!Steps, One, Excluding, Entered, Inside, Alone, Sure
  <2> QED
    BY <1>1, <1>2, <1>3, <1>16, <2>1, <2>2 DEF RL!WrSet, Changes
<1>17. CASE RL!WrStatus(t)
  <2>1. RL!Step(t, "wrstatus", "writing")
    BY <1>17 DEF RL!WrStatus
  <2>2. Changes(0, 0, 0, 1, 0)
    BY <1>1, <2>1, StepChanges DEF RL!Steps, One, Excluding, Entered, Inside, Alone, Sure
  <2> QED
    <3>1. UNCHANGED <<readers, noreader>>
      BY <1>17 DEF RL!WrStatus
    <3>2. /\ Number(Excluding)' = Number(Excluding) /\ Number(Entered)' = Number(Entered)
          /\ Number(Sure)' = Number(Sure)
      BY <1>2, <2>2 DEF Changes
    <3>3. Readers' /\ Empty'
      BY <1>1, <3>1, <3>2
    <3>4. Number(Alone)' # 0 /\ status' = -1
      BY <1>2, <1>17, <2>2 DEF RL!WrStatus, Changes
    <3> QED
      BY <3>3, <3>4
<1>18. CASE RL!WrUnlock(t)
  <2>1. RL!Step(t, "wrunlock", "wrdrop") /\ Number(Excluding) >= 1 /\ Number(Alone) >= 1
    BY <1>2, <1>18 DEF RL!WrUnlock, RL!Step, Excluding, Alone
  <2>2. Changes(0, 0, 0, 0 - 1, 0)
    BY <1>1, <2>1, StepChanges DEF RL!Steps, One, Excluding, Entered, Inside, Alone, Sure
  <2> QED
    BY <1>1, <1>2, <1>3, <1>18, <2>1, <2>2 DEF RL!WrUnlock, Changes
<1>19. CASE RL!WrDrop(t)
  <2>1. RL!Step(t, "wrdrop", "idle") /\ Number(Excluding) >= 1
    BY <1>2, <1>19 DEF RL!WrDrop, RL!Step, Excluding
  <2>2. Changes(0 - 1, 0, 0, 0, 0)
    BY <1>1, <2>1, StepChanges DEF RL!Steps, One, Excluding, Entered, Inside, Alone, Sure
  <2> QED
    BY <1>1, <1>2, <1>3, <1>19, <2>1, <2>2 DEF RL!WrDrop, Changes
<1> QED
  BY <1>5, <1>6, <1>7, <1>8, <1>9, <1>10, <1>11, <1>12, <1>13, <1>14, <1>15, <1>16, <1>17,
     <1>18,
     <1>19, Zenon DEF RL!Continue

LEMMA LockStep == ASSUME LockSound, LockInv, [RL!Next]_RL!vars PROVE LockInv'
<1>1. ASSUME NEW t \in Threads, RL!Begin(t) \/ RL!Continue(t) PROVE LockInv'
  BY <1>1, OwnersStep, CountsStep DEF LockInv
<1>2. CASE UNCHANGED RL!vars
  BY <1>2 DEF RL!vars, LockInv, RL!TypeOK, Owners, Readers, Status, Empty, Number, RL!At
<1> QED
  BY <1>1, <1>2 DEF RL!Next

LEMMA InvAsserts == ASSUME LockSound, LockInv PROVE RL!Asserts
<1> SUFFICES ASSUME NEW t \in Threads
             PROVE  /\ pc[t] = "rdstatus" => status # -1
                    /\ pc[t] \in {"reading", "rdunlock"} => status > 0
                    /\ pc[t] = "rddrop"   => readers > 0
                    /\ pc[t] = "wrset"    => readers = 0
                    /\ pc[t] = "wrstatus" => status = 0
                    /\ pc[t] \in {"writing", "wrunlock"} => status = -1
                    /\ pc[t] = "wrdrop"   => readers = -99
  BY DEF RL!Asserts
<1>1. RL!TypeOK /\ Owners /\ Readers /\ Status /\ Empty
  BY DEF LockInv
<1>2. /\ Number(Inside) <= Number(Entered) /\ Number(Alone) <= Number(Excluding)
      /\ Number(Excluding) <= 1
      /\ Number(Excluding) \in Nat /\ Number(Entered) \in Nat /\ Number(Inside) \in Nat
      /\ Number(Alone) \in Nat /\ Number(Sure) \in Nat
      /\ pc[t] \in Owning \ Excluding => Number(Excluding) = 0
      /\ \A S : pc[t] \in S => Number(S) >= 1
  BY <1>1, Together
<1>3. CASE pc[t] \in Entered
  <2>1. Number(Entered) >= 1
    BY <1>2, <1>3
  <2> QED
    BY <1>1, <1>2, <1>3, <2>1, StatusSays DEF Readers, Status, Entered, Inside, Alone
<1>4. CASE pc[t] = "wrset"
  <2>1. Number(Excluding) = 0 /\ Number(Sure) >= 1
    BY <1>2, <1>4 DEF Owning, Excluding, Sure
  <2> QED
    BY <1>1, <1>2, <1>4, <2>1 DEF Readers, Empty
<1>5. CASE pc[t] \in Excluding
  <2>1. Number(Excluding) >= 1
    BY <1>2, <1>5
  <2>2. readers = -99 /\ Number(Inside) = 0
    BY <1>1, <1>2, <2>1 DEF Readers
  <2>3. pc[t] = "wrstatus" => Number(Alone) = 0
    <3>1. ASSUME NEW u \in Threads, pc[u] \in Alone, pc[t] = "wrstatus" PROVE FALSE
      BY <1>1, <3>1 DEF Owners, Owning, Alone
    <3>2. pc[t] = "wrstatus" => RL!At(Alone) = {}
      BY <3>1 DEF RL!At
    <3> QED
      BY <3>2, AtFinite
  <2> QED
    BY <1>1, <1>5, <2>2, <2>3, StatusSays DEF Status, Excluding, Alone
<1> QED
  BY <1>3, <1>4, <1>5 DEF Entered, Excluding

LEMMA AtSteps ==
  ASSUME RL!TypeOK, NEW t \in Threads, NEW from, NEW to \in RL!Steps, RL!Step(t, from, to), NEW S
  PROVE  /\ to \in S => RL!At(S)' = RL!At(S) \cup {t}
         /\ to \notin S => RL!At(S)' = RL!At(S) \ {t}
         /\ (to \in S <=> from \in S) => RL!At(S)' = RL!At(S)
BY DEF RL!TypeOK, RL!Step, RL!At

LEMMA LockMaps ==
  ASSUME LockSound, LockInv, [RL!Next]_RL!vars
  PROVE  [RL!RW!Next]_<<RL!At(Inside), RL!At(Alone)>>
<1> DEFINE Goal == [RL!RW!Next]_<<RL!At(Inside), RL!At(Alone)>>
<1>1. RL!TypeOK /\ Owners /\ Readers
  BY DEF LockInv
<1>2. ASSUME NEW t \in Threads
      PROVE  /\ pc[t] \in Entered => RL!At(Alone) = {}
             /\ pc[t] \in Excluding => RL!At(Inside) = {}
             /\ pc[t] = "wrstatus" => RL!At(Alone) = {}
  <2>1. /\ Number(Inside) <= Number(Entered) /\ Number(Alone) <= Number(Excluding)
        /\ Number(Excluding) \in Nat /\ Number(Entered) \in Nat /\ Number(Inside) \in Nat
        /\ Number(Alone) \in Nat
        /\ \A S : pc[t] \in S => Number(S) >= 1
    BY <1>1, Together
  <2>2. pc[t] \in Entered => Number(Alone) = 0
    BY <1>1, <2>1 DEF Readers
  <2>3. pc[t] \in Excluding => Number(Inside) = 0
    BY <1>1, <2>1 DEF Readers
  <2>4. pc[t] = "wrstatus" => RL!At(Alone) = {}
    <3>1. ASSUME NEW u \in Threads, pc[u] \in Alone, pc[t] = "wrstatus" PROVE FALSE
      BY <1>1, <3>1 DEF Owners, Owning, Alone
    <3> QED
      BY <3>1 DEF RL!At
  <2> QED
    BY <2>2, <2>3, <2>4, AtFinite
<1>3. ASSUME NEW t \in Threads, NEW from \in RL!Steps, NEW to \in RL!Steps, RL!Step(t, from, to),
             to \in Inside <=> from \in Inside, to \in Alone <=> from \in Alone
      PROVE  Goal
  <2>1. RL!At(Inside)' = RL!At(Inside) /\ RL!At(Alone)' = RL!At(Alone)
    BY <1>1, <1>3, AtSteps
  <2> QED
    BY <2>1
<1>4. ASSUME NEW t \in Threads, RL!RdStatus(t) PROVE Goal
  <2>1. RL!Step(t, "rdstatus", "reading") /\ pc[t] \in Entered
    BY <1>4 DEF RL!RdStatus, RL!Step, Entered
  <2>2. RL!At(Inside)' = RL!At(Inside) \cup {t} /\ RL!At(Alone)' = RL!At(Alone) /\ RL!At(Alone) = {}
    BY <1>1, <1>2, <2>1, AtSteps DEF Inside, Alone, RL!Steps
  <2>3. RL!RW!BeginRead(t)
    BY <2>2 DEF RL!RW!BeginRead, Inside, Alone
  <2> QED
    BY <2>3 DEF RL!RW!Next
<1>5. ASSUME NEW t \in Threads, RL!RdUnlock(t) PROVE Goal
  <2>1. RL!Step(t, "rdunlock", "rddrop") /\ t \in RL!At(Inside)
    BY <1>5 DEF RL!RdUnlock, RL!Step, Inside, RL!At
  <2>2. RL!At(Inside)' = RL!At(Inside) \ {t} /\ RL!At(Alone)' = RL!At(Alone)
    BY <1>1, <2>1, AtSteps DEF Inside, Alone, RL!Steps
  <2>3. RL!RW!EndRead(t)
    BY <2>1, <2>2 DEF RL!RW!EndRead, Inside, Alone
  <2> QED
    BY <2>3 DEF RL!RW!Next
<1>6. ASSUME NEW t \in Threads, RL!WrStatus(t) PROVE Goal
  <2>1. RL!Step(t, "wrstatus", "writing") /\ pc[t] \in Excluding
    BY <1>6 DEF RL!WrStatus, RL!Step, Excluding
  <2>2. RL!At(Alone)' = {t} /\ RL!At(Alone) = {} /\ RL!At(Inside)' = RL!At(Inside) /\ RL!At(Inside) = {}
    <3>1. RL!At(Alone) = {} /\ RL!At(Inside) = {}
      BY <1>2, <2>1 DEF RL!Step
    <3>2. RL!At(Alone)' = RL!At(Alone) \cup {t} /\ RL!At(Inside)' = RL!At(Inside)
      BY <1>1, <2>1, AtSteps DEF Inside, Alone, RL!Steps
    <3> QED
      BY <3>1, <3>2
  <2>3. RL!RW!BeginWrite(t)
    BY <2>2 DEF RL!RW!BeginWrite, Inside, Alone
  <2> QED
    BY <2>3 DEF RL!RW!Next
<1>7. ASSUME NEW t \in Threads, RL!WrUnlock(t) PROVE Goal
  <2>1. RL!Step(t, "wrunlock", "wrdrop") /\ t \in RL!At(Alone)
    BY <1>7 DEF RL!WrUnlock, RL!Step, Alone, RL!At
  <2>2. RL!At(Alone)' = RL!At(Alone) \ {t} /\ RL!At(Inside)' = RL!At(Inside)
    BY <1>1, <2>1, AtSteps DEF Inside, Alone, RL!Steps
  <2>3. RL!RW!EndWrite(t)
    BY <2>1, <2>2 DEF RL!RW!EndWrite, Inside, Alone
  <2> QED
    BY <2>3 DEF RL!RW!Next
<1>8. ASSUME NEW t \in Threads, RL!Unlock(t) PROVE Goal
  BY <1>3, <1>8, UnlockGoesBack DEF RL!Steps, Inside, Alone
<1>9. ASSUME NEW t \in Threads,
             \/ RL!Begin(t) \/ RL!RdLock(t) \/ RL!RdEnter(t) \/ RL!RdDrop(t) \/ RL!RdSignal(t)
             \/ RL!WrLock(t) \/ RL!WrCheck(t) \/ RL!WrWait(t) \/ RL!WrSet(t) \/ RL!WrDrop(t)
      PROVE  Goal
  <2>1. \E from, to \in RL!Steps \ (Inside \cup Alone) : RL!Step(t, from, to)
    BY <1>9 DEF RL!Begin, RL!RdLock, RL!RdEnter, RL!RdDrop, RL!RdSignal, RL!WrLock, RL!WrCheck,
       RL!WrWait, RL!WrSet, RL!WrDrop,
       RL!Steps, Inside, Alone
  <2> QED
    BY <1>3, <2>1
<1>10. CASE UNCHANGED RL!vars
  BY <1>10 DEF RL!vars, RL!At
<1> QED
  BY <1>4, <1>5, <1>6, <1>7, <1>8, <1>9, <1>10, Zenon DEF RL!Next, RL!Continue

-----------------------------------------------------------------------------
(* The eight side by side: a step of one leaves the state of the others.   *)

ServiceInv ==
  /\ LoggerInv /\ ControlInv /\ HandoverInv /\ LockInv
  /\ MutexTypes /\ MutexInv /\ CondInv /\ LocksInv /\ ThreadInv /\ StreamsInv
  /\ LineInv /\ PartTypes

LEMMA PartSteps ==
  ASSUME [ServiceNext]_allVars
  PROVE  /\ [Next]_vars /\ [SC!Next]_SC!vars /\ [SS!Next]_SS!vars /\ [RL!Next]_RL!vars
         /\ [MX!Next]_MX!vars /\ [SK!Next]_SK!vars /\ [ST!Next]_ST!vars /\ [SL!Next]_SL!vars
<1>1. UNCHANGED controlVars => UNCHANGED SC!vars
  BY DEF controlVars, SC!vars, SC!modes, SC!history
<1>2. UNCHANGED shareVars => UNCHANGED SS!vars
  BY DEF shareVars, SS!vars, SS!events, SS!answers
<1>3. UNCHANGED lockVars => UNCHANGED RL!vars
  BY DEF lockVars, RL!vars
<1>4. UNCHANGED mutexVars => UNCHANGED MX!vars
  BY DEF mutexVars, MX!vars
<1>5. UNCHANGED slimVars => UNCHANGED SK!vars
  BY DEF slimVars, SK!vars
<1>6. UNCHANGED threadVars => UNCHANGED ST!vars
  BY DEF threadVars, ST!vars
<1>7. UNCHANGED streamVars => UNCHANGED SL!vars
  BY DEF streamVars, SL!vars, SL!initVars, SL!endpoint, SL!text
<1> USE <1>1, <1>2, <1>3, <1>4, <1>5, <1>6, <1>7
<1>8. CASE SL!Next /\ UNCHANGED <<vars, controlVars, shareVars, lockVars, libVars, threadVars>>
  BY <1>8 DEF libVars
<1>16. CASE UNCHANGED allVars
  BY <1>16 DEF allVars, libVars
<1>9. CASE Next /\ UNCHANGED <<streamVars, controlVars, shareVars, lockVars, libVars, threadVars>>
  BY <1>9 DEF libVars
<1>10. CASE SC!Next /\ UNCHANGED <<vars, streamVars, shareVars, lockVars, libVars, threadVars>>
  BY <1>10 DEF libVars
<1>11. CASE SS!Next /\ UNCHANGED <<vars, streamVars, controlVars, lockVars, libVars, threadVars>>
  BY <1>11 DEF libVars
<1>12. CASE RL!Next /\ UNCHANGED <<vars, streamVars, controlVars, shareVars, libVars, threadVars>>
  BY <1>12 DEF libVars
<1>13. CASE MX!Next /\ UNCHANGED <<slimVars, threadVars, others>>
  BY <1>13 DEF others
<1>14. CASE SK!Next /\ UNCHANGED <<mutexVars, threadVars, others>>
  BY <1>14 DEF others
<1>15. CASE ST!Next /\ UNCHANGED <<libVars, others>>
  BY <1>15 DEF others, libVars
<1> QED
  BY <1>8, <1>9, <1>10, <1>11, <1>12, <1>13, <1>14, <1>15, <1>16 DEF ServiceNext

LEMMA ServiceStep == ServiceInv /\ [ServiceNext]_allVars => ServiceInv'
<1> SUFFICES ASSUME ServiceInv, [ServiceNext]_allVars PROVE ServiceInv'
  OBVIOUS
<1> USE DEF ServiceInv
<1>1. LoggerInv'
  BY PartSteps, LoggerStep
<1>2. ControlInv'
  BY PartSteps, ControlStep
<1>3. HandoverInv'
  BY PartSteps, HandoverStep
<1>4. LockInv'
  BY PartSteps, ServiceAssumption, LockStep DEF LockSound
<1>5. MutexTypes' /\ MutexInv' /\ CondInv'
  BY PartSteps, ServiceAssumption, MutexTypesStep, MutexStep, CondStep
<1>6. LocksInv'
  BY PartSteps, ServiceAssumption, LocksStep DEF LockSound
<1>7. ThreadInv'
  BY PartSteps, ThreadStep
<1>8. StreamsInv'
  BY PartSteps, StreamsStep
<1>9. LineInv'
  BY PartSteps, ServiceAssumption, LineStep
<1>10. PartTypes'
  BY <1>2, PartSteps, ServiceAssumption, LoggerTypeStep, ControlTypeStep, LocksTypeStep,
     ThreadTypeStep, WipeStep DEF PartTypes
<1> QED
  BY <1>1, <1>2, <1>3, <1>4, <1>5, <1>6, <1>7, <1>8, <1>9, <1>10

LEMMA ServiceInitial == ServiceInit => ServiceInv
<1> SUFFICES ASSUME ServiceInit PROVE ServiceInv
  OBVIOUS
<1>1. Init /\ SC!Init /\ SS!Init /\ RL!Init /\ MX!Init /\ SK!Init /\ ST!Init
      /\ SL!Init
  BY DEF ServiceInit
<1>2. LoggerInv /\ ControlInv /\ HandoverInv
  BY <1>1, LoggerInit, ControlInit, HandoverInit
<1>3. LockInv
  BY <1>1, ServiceAssumption, LockInit DEF LockSound
<1>4. MutexTypes /\ MutexInv /\ CondInv /\ LocksInv /\ ThreadInv /\ StreamsInv
  BY <1>1, MutexInit, LocksInit, ThreadInit, StreamsInit
<1>5. LineInv /\ PartTypes
  BY <1>1, ServiceAssumption, LineInit, PartTypesInit
<1> QED
  BY <1>2, <1>3, <1>4, <1>5 DEF ServiceInv

\* What the locks and threads assert, or trust their callers for, holds for any number of
\* threads and any interleaving: the status and counts of RwLock wherever it asserts them, one
\* owner of SMutex, its nesting and no lost wakeup of its conditions, the owners of SLocks,
\* whatever pthread_rwlock_init() left in a field, up to a reader who trusts it (`unset`);
\* and an instance of SThread that is used until it is freed and freed by its last user.
THEOREM AssertsKept == ServiceSpec => []Asserts
<1>1. ServiceInv => Asserts
  BY ServiceAssumption, InvAsserts, MutexAsserts, LocksAssert, ThreadAsserts
     DEF ServiceInv, Asserts, LockSound
<1> QED
  BY <1>1, ServiceInitial, ServiceStep, PTL DEF ServiceSpec

\* The process does not exit under a server that serves, in whatever order the stop, the end
\* of the server and the end of the logger come, unless SIGTERM came before its signal pipe or
\* there is no logger; nor does ~CNTService find a service that runs after a STOP that did.
THEOREM ExitsClean == ServiceSpec => []CleanExit
<1>1. ServiceInv => CleanExit
  BY ControlClean DEF ServiceInv
<1> QED
  BY <1>1, ServiceInitial, ServiceStep, PTL DEF ServiceSpec

\* The child's answer is not lost between the events and the bytes of its pipe: a client that
\* waited for its parent, as it should, and has read all there was, has set the child's event.
THEOREM AnswerIsKept == ServiceSpec => []AnswerKept
<1>1. ServiceInv => AnswerKept
  BY InvAnswer DEF ServiceInv, AnswerKept
<1> QED
  BY <1>1, ServiceInitial, ServiceStep, PTL DEF ServiceSpec

\* The log has, of each stream, the lines that were printed, whole, in order and none twice or
\* lost, whatever the chunks in which the logger read them; and a logger that is stopped after
\* its server leaves nothing in the pipes: it polls until no endpoint has anything to do, and
\* each that a stream was opened on has, unless its client came too early.
THEOREM LogIsWhole == ServiceSpec => []LogWhole
<1>1. ServiceInv => LogWhole
  BY LinesAreWhole DEF ServiceInv, StreamsInv, LogWhole
<1> QED
  BY <1>1, ServiceInitial, ServiceStep, PTL DEF ServiceSpec

\* The states of the eight have their types: no buffer holds more than it may, nor the count of
\* a mutex that was wiped anything but what the model gives it.
THEOREM ServiceTyped == ServiceSpec => []TypesOK
<1>1. ServiceInv => TypesOK
  BY MutexTyped DEF ServiceInv, PartTypes, LineInv, HandoverInv, LockInv, TypesOK
<1> QED
  BY <1>1, ServiceInitial, ServiceStep, PTL DEF ServiceSpec

\* The reader/writer lock implements what it promises its callers, readers share and a writer
\* is alone, for any number of threads and between any two of its atomic operations.
THEOREM LockIsOne == ServiceSpec => ReadersWriterSpec
<1>1. ServiceInit => RL!RW!Init
  BY DEF ServiceInit, RL!Init, RL!RW!Init, RL!At
<1>2. ServiceInv /\ [ServiceNext]_allVars =>
        [RL!RW!Next]_<<RL!At({"reading", "rdunlock"}), RL!At({"writing", "wrunlock"})>>
  BY PartSteps, ServiceAssumption, LockMaps DEF LockSound, Inside, Alone, ServiceInv
<1> QED
  BY <1>1, <1>2, ServiceInitial, ServiceStep, PTL DEF ServiceSpec, ReadersWriterSpec,
     RL!ReadersWriterSpec, RL!RW!Spec
=============================================================================

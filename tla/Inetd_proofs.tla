---------------------------- MODULE Inetd_proofs ----------------------------
(***************************************************************************)
(* Proofs about Inetd, for every number of services, workers and           *)
(* processes: the types of its state; that a removed service is closed     *)
(* (TableInv); how far the limit on children can be overshot (LoadInv,     *)
(* OverInv); who holds a process (ProcInv), and with it that children are  *)
(* counted right and no service stays stopped; that a running service      *)
(* listens; and that the daemon stays up.  What a theorem needs of the     *)
(* environment is a named condition on Hazards: Waited, Accepted, Lasting. *)
(***************************************************************************)
EXTENDS Inetd, FiniteSetTheorems, TLAPS

-----------------------------------------------------------------------------
(* Types.                                                                  *)

NetTypeOK ==
  /\ accepts \in [Services -> 0 .. MaxAccepts]
  /\ ready \in [Services -> 0 .. MaxAccepts]
  /\ failed \in [Services -> 0 .. MaxAccepts]

\* What the threads hold at each point of their code.
WorkerTypeOK ==
  \A w \in Workers :
    /\ wpc[w] # "idle" => wsvc[w] \in Services
    /\ wpc[w] \in {"add", "link"} => wpid[w] \in Pids

MainTypeOK ==
  /\ mpc \in {"search", "unlink", "free"} => mpid \in Pids
  /\ mpc \in {"adjust", "reset", "enable"} => msvc \in Services

TypeInv == TypeOK /\ WorkerTypeOK /\ MainTypeOK

LEMMA CappedType == ASSUME NEW n \in Nat PROVE Capped(n) \in 0 .. MaxAccepts
BY InetdAssumption DEF InetdAssumption, Capped

LEMMA CancelAcceptsType ==
  ASSUME NetTypeOK, NEW s \in Services, CancelAccepts(s)
  PROVE  NetTypeOK'
<1>1. failed[s] + accepts[s] \in Nat
  BY DEF NetTypeOK
<1>2. Capped(failed[s] + accepts[s]) \in 0 .. MaxAccepts
  BY <1>1, CappedType
<1>3. 0 \in 0 .. MaxAccepts
  BY InetdAssumption DEF InetdAssumption
<1> QED
  BY <1>2, <1>3 DEF NetTypeOK, CancelAccepts

LEMMA DisableType ==
  ASSUME NetTypeOK, running \in [Services -> BOOLEAN], NEW s \in Services, Disable(s)
  PROVE  NetTypeOK' /\ running' \in [Services -> BOOLEAN]
<1>1. NetTypeOK'
  BY CancelAcceptsType DEF Disable, NetTypeOK, netVars
<1> QED
  BY <1>1 DEF Disable

LEMMA EnableType ==
  ASSUME NetTypeOK, running \in [Services -> BOOLEAN], Up, NEW s \in Services, Enable(s)
  PROVE  /\ NetTypeOK'
         /\ running' \in [Services -> BOOLEAN]
         /\ down' \in {"no", "software"}
<1>1. Capped(accepts[s] + 1) \in 0 .. MaxAccepts
  BY CappedType DEF NetTypeOK
<1>2. NetTypeOK'
  BY <1>1 DEF Enable, NetTypeOK, netVars
<1>3. running' \in [Services -> BOOLEAN]
  BY DEF Enable
<1>4. down' \in {"no", "software"}
  BY DEF Enable, TerminateMain, Up
<1> QED
  BY <1>2, <1>3, <1>4

LEMMA CloseSepType ==
  ASSUME TypeOK, NEW s \in Services, CloseSep(s)
  PROVE  /\ NetTypeOK'
         /\ running' \in [Services -> BOOLEAN]
         /\ fd' \in [Services -> BOOLEAN]
         /\ children' \in [Services -> SUBSET Pids]
         /\ proctable' \in [Pids -> {"none", "hooked", "freed"}]
         /\ secount' \in [Services -> 0 .. TooMany]
<1>1. NetTypeOK
  BY DEF TypeOK, NetTypeOK
<1>2. NetTypeOK'
  BY <1>1, CancelAcceptsType DEF CloseSep, NetTypeOK, netVars
<1>3. 0 \in 0 .. TooMany
  BY InetdAssumption DEF InetdAssumption
<1> QED
  BY <1>2, <1>3 DEF CloseSep, TypeOK

LEMMA SetupType ==
  ASSUME NetTypeOK, running \in [Services -> BOOLEAN], fd \in [Services -> BOOLEAN],
         timingout \in BOOLEAN, Up, NEW s \in Services, Setup(s)
  PROVE  /\ NetTypeOK'
         /\ running' \in [Services -> BOOLEAN]
         /\ fd' \in [Services -> BOOLEAN]
         /\ timingout' \in BOOLEAN
         /\ down' \in {"no", "software"}
<1>1. Capped(accepts[s] + 1) \in 0 .. MaxAccepts
  BY CappedType DEF NetTypeOK
<1>2. NetTypeOK'
  BY <1>1 DEF Setup, NetTypeOK, netVars
<1>3. running' \in [Services -> BOOLEAN] /\ fd' \in [Services -> BOOLEAN]
  BY DEF Setup
<1>4. timingout' \in BOOLEAN
  BY DEF Setup, SetAlarm
<1>5. down' \in {"no", "software"}
  BY DEF Setup, TerminateMain, Up
<1> QED
  BY <1>2, <1>3, <1>4, <1>5

LEMMA RearmType ==
  ASSUME NetTypeOK, NEW s \in Services, Rearm(s)
  PROVE  accepts' \in [Services -> 0 .. MaxAccepts]
<1>1. Capped(accepts[s] + 1) \in 0 .. MaxAccepts
  BY CappedType DEF NetTypeOK
<1> QED
  BY <1>1 DEF Rearm, NetTypeOK

LEMMA ToIdleType ==
  ASSUME TypeInv, NEW w \in Workers, ToIdle(w)
  PROVE  /\ wpc' \in [Workers -> WorkerPc]
         /\ wsvc' \in [Workers -> Services \cup {NoService}]
         /\ wpid' \in [Workers -> Pids \cup {NoPid}]
         /\ WorkerTypeOK'
BY DEF ToIdle, TypeInv, TypeOK, WorkerTypeOK, WorkerPc

LEMMA InitType == Init => TypeInv
<1> SUFFICES ASSUME Init PROVE TypeInv
  OBVIOUS
<1>1. maxchild \in [Services -> Limits]
  BY InetdAssumption DEF Init, InetdAssumption
<1>2. 0 \in 0 .. MaxAccepts /\ 0 \in 0 .. TooMany
  BY InetdAssumption DEF InetdAssumption
<1>3. TypeOK
  BY <1>1, <1>2 DEF Init, TypeOK, WorkerPc, MainPc
<1> QED
  BY <1>3 DEF Init, TypeInv, WorkerTypeOK, MainTypeOK

LEMMA EnvironmentType ==
  ASSUME TypeInv, Environment \/ Timer PROVE TypeInv'
<1>1. ASSUME NEW s \in Services, Connect(s) PROVE TypeInv'
  <2>1. accepts[s] - 1 \in 0 .. MaxAccepts /\ ready[s] + 1 \in 0 .. MaxAccepts
    BY <1>1, InetdAssumption DEF InetdAssumption, Connect, TypeInv, TypeOK
  <2> QED
    BY <1>1, <2>1 DEF Connect, TypeInv, TypeOK, WorkerTypeOK, MainTypeOK, svcVars, netVars,
       procVars, workVars, mainVars, sigVars
<1>2. ASSUME NEW s \in Services, ConnectReset(s) PROVE TypeInv'
  <2>1. accepts[s] - 1 \in 0 .. MaxAccepts /\ failed[s] + 1 \in 0 .. MaxAccepts
    BY <1>2, InetdAssumption DEF InetdAssumption, ConnectReset, TypeInv, TypeOK
  <2> QED
    BY <1>2, <2>1 DEF ConnectReset, TypeInv, TypeOK, WorkerTypeOK, MainTypeOK, svcVars,
       netVars, procVars, workVars, mainVars, sigVars
<1>3. ASSUME NEW p \in Pids, ChildExit(p) PROVE TypeInv'
  BY <1>3 DEF ChildExit, Flag, TypeInv, TypeOK, WorkerTypeOK, MainTypeOK, svcVars, netVars,
     procVars, workVars, mainVars, sigVars
<1>4. ASSUME RaiseHup PROVE TypeInv'
  BY <1>4 DEF RaiseHup, Flag, TypeInv, TypeOK, WorkerTypeOK, MainTypeOK, svcVars, netVars,
     procVars, workVars, mainVars, sigVars
<1>5. ASSUME TimerExpire PROVE TypeInv'
  BY <1>5 DEF TimerExpire, TypeInv, TypeOK, WorkerTypeOK, MainTypeOK, svcVars, netVars,
     procVars, workVars, mainVars, sigVars
<1>6. ASSUME TimerFlag PROVE TypeInv'
  BY <1>6 DEF TimerFlag, Flag, TypeInv, TypeOK, WorkerTypeOK, MainTypeOK, svcVars, netVars,
     procVars, workVars, mainVars, sigVars
<1> QED
  BY <1>1, <1>2, <1>3, <1>4, <1>5, <1>6 DEF Environment, Timer

LEMMA CorruptType == ASSUME TypeInv, Corrupt PROVE TypeInv'
BY DEF Corrupt, TypeInv, TypeOK, WorkerTypeOK, MainTypeOK, svcVars, netVars, procVars,
            workVars, mainVars, sigVars

LEMMA IncrementedType ==
  ASSUME TypeInv, NEW w \in Workers, wpc[w] = "admit", NEW n \in Incremented(w)
  PROVE  n \in Nat /\ wsvc[w] \in Services
BY InetdAssumption DEF InetdAssumption, Incremented, TypeInv, TypeOK, WorkerTypeOK

LEMMA WorkerType ==
  ASSUME TypeInv, NEW w \in Workers, Worker(w) PROVE TypeInv'
<1> USE DEF WorkerPc
<1>0. NetTypeOK
  BY DEF NetTypeOK, TypeInv, TypeOK
<1>1. ASSUME NEW s \in Services, DequeueConnection(w, s) PROVE TypeInv'
  <2>1. accepts' \in [Services -> 0 .. MaxAccepts]
    BY <1>0, <1>1, RearmType DEF DequeueConnection
  <2>2. ready' \in [Services -> 0 .. MaxAccepts]
    <3>1. ready[s] - 1 \in 0 .. MaxAccepts
      BY <1>1, InetdAssumption DEF InetdAssumption, DequeueConnection, TypeInv, TypeOK
    <3> QED
      BY <1>1, <3>1 DEF DequeueConnection, TypeInv, TypeOK
  <2>3. /\ wpc' \in [Workers -> WorkerPc]
        /\ wsvc' \in [Workers -> Services \cup {NoService}]
        /\ WorkerTypeOK'
    BY <1>1 DEF DequeueConnection, TypeInv, TypeOK, WorkerTypeOK
  <2> QED
    BY <1>1, <2>1, <2>2, <2>3 DEF DequeueConnection, TypeInv, TypeOK, MainTypeOK, svcVars,
       netVars, procVars, workVars, mainVars, sigVars
<1>2. ASSUME NEW s \in Services, DequeueFailure(w, s) PROVE TypeInv'
  <2>1. accepts' \in [Services -> 0 .. MaxAccepts]
    BY <1>0, <1>2, RearmType DEF DequeueFailure
  <2>2. failed[s] - 1 \in 0 .. MaxAccepts
    BY <1>2, InetdAssumption DEF InetdAssumption, DequeueFailure, TypeInv, TypeOK
  <2>3. failed' \in [Services -> 0 .. MaxAccepts]
    BY <1>2, <2>2 DEF DequeueFailure, TypeInv, TypeOK
  <2> QED
    BY <1>2, <2>1, <2>3 DEF DequeueFailure, TypeInv, TypeOK, WorkerTypeOK, MainTypeOK,
       svcVars, netVars, procVars, workVars, mainVars, sigVars
<1>3. ASSUME Refuse(w) PROVE TypeInv'
  BY <1>3, ToIdleType DEF Refuse, TypeInv, TypeOK, MainTypeOK, svcVars, netVars, procVars,
            workVars, mainVars, sigVars
<1>4. ASSUME Admit(w) PROVE TypeInv'
  <2>1. PICK n \in Incremented(w) :
          secount' = [secount EXCEPT ![wsvc[w]] =
                        IF TooMany = 0 THEN 0 ELSE IF n >= TooMany THEN 1 ELSE n]
    BY <1>4 DEF Admit
  <2>2. n \in Nat
    BY <1>4, IncrementedType DEF Admit
  <2>3. (IF TooMany = 0 THEN 0 ELSE IF n >= TooMany THEN 1 ELSE n) \in 0 .. TooMany
    BY <2>2, InetdAssumption DEF InetdAssumption
  <2>4. secount' \in [Services -> 0 .. TooMany]
    BY <2>1, <2>3 DEF TypeInv, TypeOK
  <2> QED
    BY <1>4, <2>4 DEF Admit, TypeInv, TypeOK, WorkerTypeOK, MainTypeOK, svcVars, netVars,
       procVars, workVars, mainVars, sigVars
<1>5. ASSUME Looping(w) PROVE TypeInv'
  <2>1. CloseSep(wsvc[w]) /\ wsvc[w] \in Services
    BY <1>5 DEF Looping, TypeInv, WorkerTypeOK
  <2>2. /\ NetTypeOK'
        /\ running' \in [Services -> BOOLEAN]
        /\ fd' \in [Services -> BOOLEAN]
        /\ children' \in [Services -> SUBSET Pids]
        /\ proctable' \in [Pids -> {"none", "hooked", "freed"}]
        /\ secount' \in [Services -> 0 .. TooMany]
    BY <2>1, CloseSepType DEF TypeInv
  <2>3. wpc' \in [Workers -> WorkerPc] /\ WorkerTypeOK'
    BY <1>5 DEF Looping, TypeInv, TypeOK, WorkerTypeOK
  <2> QED
    BY <1>5, <2>2, <2>3 DEF Looping, NetTypeOK, TypeInv, TypeOK, MainTypeOK, mainVars, sigVars
<1>6. ASSUME LoopingAlarm(w) PROVE TypeInv'
  BY <1>6, ToIdleType DEF LoopingAlarm, SetAlarm, TypeInv, TypeOK, MainTypeOK, svcVars,
     netVars, procVars, workVars, mainVars, sigVars
<1>7. ASSUME NEW p \in Pids, Fork(w, p) PROVE TypeInv'
  BY <1>7 DEF Fork, TypeInv, TypeOK, WorkerTypeOK, MainTypeOK, svcVars, netVars, procVars,
            workVars, mainVars, sigVars
<1>8. ASSUME ForkError(w) PROVE TypeInv'
  BY <1>8, ToIdleType DEF ForkError, TypeInv, TypeOK, MainTypeOK, svcVars, netVars, procVars,
            workVars, mainVars, sigVars
<1>9. ASSUME AddProc(w) PROVE TypeInv'
  BY <1>9 DEF AddProc, TypeInv, TypeOK, WorkerTypeOK, MainTypeOK, svcVars, netVars, procVars,
            workVars, mainVars, sigVars
<1>10. ASSUME AddDuplicate(w) PROVE TypeInv'
  BY <1>10, ToIdleType DEF AddDuplicate, Flag, TypeInv, TypeOK, MainTypeOK, svcVars,
     netVars, procVars, workVars, mainVars, sigVars
<1>11. ASSUME AddCorrupt(w) \/ LinkCorrupt(w) PROVE TypeInv'
  BY <1>11, CorruptType DEF AddCorrupt, LinkCorrupt
<1>12. ASSUME Link(w) PROVE TypeInv'
  <2>1. wsvc[w] \in Services /\ wpid[w] \in Pids
    BY <1>12 DEF Link, TypeInv, WorkerTypeOK
  <2>2. NetTypeOK' /\ running' \in [Services -> BOOLEAN]
    BY <1>0, <1>12, <2>1, DisableType DEF Link, NetTypeOK, TypeInv, TypeOK, netVars
  <2>3. children' \in [Services -> SUBSET Pids]
    BY <1>12, <2>1 DEF Link, TypeInv, TypeOK
  <2> QED
    BY <1>12, <2>2, <2>3, ToIdleType DEF Link, NetTypeOK, TypeInv, TypeOK, MainTypeOK,
       svcVars, netVars, procVars, workVars, mainVars, sigVars
<1> QED
  BY <1>1, <1>2, <1>3, <1>4, <1>5, <1>6, <1>7, <1>8, <1>9, <1>10, <1>11, <1>12 DEF Worker

LEMMA ReapType ==
  ASSUME TypeInv, Reap PROVE TypeInv'
<1> USE DEF MainPc
<1>1. ASSUME TakeChld PROVE TypeInv'
  BY <1>1 DEF TakeChld, TakeSignal, TypeInv, TypeOK, WorkerTypeOK, MainTypeOK,
     svcVars, netVars, procVars, workVars, mainVars, sigVars
<1>2. ASSUME WaitNone PROVE TypeInv'
  BY <1>2 DEF WaitNone, TypeInv, TypeOK, WorkerTypeOK, MainTypeOK,
     svcVars, netVars, procVars, workVars, mainVars, sigVars
<1>3. ASSUME NEW p \in Pids, WaitChild(p) PROVE TypeInv'
  BY <1>3 DEF WaitChild, TypeInv, TypeOK, WorkerTypeOK, MainTypeOK,
     svcVars, netVars, procVars, workVars, mainVars, sigVars
<1>4. ASSUME SearchMiss PROVE TypeInv'
  BY <1>4 DEF SearchMiss, TypeInv, TypeOK, WorkerTypeOK, MainTypeOK,
     svcVars, netVars, procVars, workVars, mainVars, sigVars
<1>5. ASSUME SearchHit PROVE TypeInv'
  BY <1>5 DEF SearchHit, TypeInv, TypeOK, WorkerTypeOK, MainTypeOK,
     svcVars, netVars, procVars, workVars, mainVars, sigVars
<1>6. ASSUME SearchCorrupt \/ UnlinkCorrupt \/ FreeCorrupt PROVE TypeInv'
  BY <1>6, CorruptType DEF SearchCorrupt, UnlinkCorrupt, FreeCorrupt
<1>7. ASSUME Unlink PROVE TypeInv'
  <2>1. PICK s \in Services : Unlink!(s)
    BY <1>7 DEF Unlink
  <2>2. NetTypeOK /\ running \in [Services -> BOOLEAN] /\ down \in {"no", "software"}
    BY <2>1 DEF Up, NetTypeOK, TypeInv, TypeOK
  <2>3. /\ NetTypeOK'
        /\ running' \in [Services -> BOOLEAN]
        /\ down' \in {"no", "software"}
    BY <2>1, <2>2, EnableType DEF NetTypeOK, netVars
  <2>4. children' \in [Services -> SUBSET Pids]
    BY <2>1 DEF TypeInv, TypeOK
  <2> QED
    BY <2>1, <2>3, <2>4 DEF NetTypeOK, TypeInv, TypeOK, WorkerTypeOK, MainTypeOK,
       svcVars, netVars, procVars, workVars, mainVars, sigVars
<1>8. ASSUME FreeProc PROVE TypeInv'
  BY <1>8 DEF FreeProc, TypeInv, TypeOK, WorkerTypeOK, MainTypeOK,
     svcVars, netVars, procVars, workVars, mainVars, sigVars
<1> QED
  BY <1>1, <1>2, <1>3, <1>4, <1>5, <1>6, <1>7, <1>8 DEF Reap

LEMMA RetryType ==
  ASSUME TypeInv, NEW s \in Services, Retry(s) PROVE TypeInv'
<1>1. Up /\ NetTypeOK
  BY DEF Retry, NetTypeOK, TypeInv, TypeOK
<1>2. /\ NetTypeOK'
      /\ running' \in [Services -> BOOLEAN]
      /\ fd' \in [Services -> BOOLEAN]
      /\ timingout' \in BOOLEAN
      /\ down' \in {"no", "software"}
  <2>1. CASE Setup(s)
    BY <1>1, <2>1, SetupType DEF TypeInv, TypeOK
  <2>2. CASE UNCHANGED <<fd, running, netVars, timingout, down>>
    BY <1>1, <2>2 DEF Up, netVars, NetTypeOK, TypeInv, TypeOK
  <2> QED
    BY <2>1, <2>2 DEF Retry
<1> QED
  BY <1>2 DEF Retry, NetTypeOK, TypeInv, TypeOK, WorkerTypeOK, MainTypeOK, procVars, workVars

LEMMA ConfigType ==
  ASSUME TypeInv, Config PROVE TypeInv'
<1> USE DEF MainPc
<1>1. ASSUME TakeHup PROVE TypeInv'
  BY <1>1 DEF TakeHup, TakeSignal, TypeInv, TypeOK, WorkerTypeOK, MainTypeOK,
     svcVars, netVars, procVars, workVars, mainVars, sigVars
<1>2. ASSUME TakeHupNoFile PROVE TypeInv'
  BY <1>2 DEF TakeHupNoFile, TakeSignal, TypeInv, TypeOK, WorkerTypeOK, MainTypeOK,
     svcVars, netVars, procVars, workVars, mainVars, sigVars
<1>3. ASSUME ConfigAbort PROVE TypeInv'
  BY <1>3 DEF ConfigAbort, TerminateMain, TypeInv, TypeOK, WorkerTypeOK, MainTypeOK,
     svcVars, netVars, procVars, workVars, mainVars, sigVars
<1>4. ASSUME NEW s \in Services, ConfigOld(s) PROVE TypeInv'
  BY <1>4 DEF ConfigOld, TypeInv, TypeOK, WorkerTypeOK, MainTypeOK,
     svcVars, netVars, procVars, workVars, mainVars, sigVars
<1>5. ASSUME NEW s \in Services, ConfigNew(s) PROVE TypeInv'
  <2>1. secount' \in [Services -> 0 .. TooMany]
    BY <1>5, InetdAssumption DEF InetdAssumption, ConfigNew, TypeInv, TypeOK
  <2> QED
    BY <1>5, <2>1 DEF ConfigNew, TypeInv, TypeOK, WorkerTypeOK, MainTypeOK,
       svcVars, netVars, procVars, workVars, mainVars, sigVars
<1>6. ASSUME NEW s \in Services, ConfigPurge(s) PROVE TypeInv'
  <2>1. /\ NetTypeOK'
        /\ running' \in [Services -> BOOLEAN]
        /\ fd' \in [Services -> BOOLEAN]
        /\ children' \in [Services -> SUBSET Pids]
        /\ proctable' \in [Pids -> {"none", "hooked", "freed"}]
        /\ secount' \in [Services -> 0 .. TooMany]
    BY <1>6, CloseSepType DEF ConfigPurge, TypeInv
  <2> QED
    BY <1>6, <2>1 DEF ConfigPurge, NetTypeOK, TypeInv, TypeOK, WorkerTypeOK, MainTypeOK,
       workVars, sigVars
<1>7. ASSUME ConfigAdjust PROVE TypeInv'
  <2>1. NetTypeOK /\ msvc \in Services
    BY <1>7 DEF ConfigAdjust, NetTypeOK, TypeInv, TypeOK, MainTypeOK
  <2>2. NetTypeOK' /\ running' \in [Services -> BOOLEAN]
    BY <1>7, <2>1, DisableType DEF ConfigAdjust, NetTypeOK, netVars, TypeInv, TypeOK
  <2> QED
    BY <1>7, <2>1, <2>2 DEF ConfigAdjust, NetTypeOK, TypeInv, TypeOK, WorkerTypeOK, MainTypeOK,
       procVars, workVars, sigVars
<1>8. ASSUME ConfigReset PROVE TypeInv'
  <2>1. msvc \in Services /\ CloseSep(msvc)
    BY <1>8 DEF ConfigReset, TypeInv, MainTypeOK
  <2>2. /\ NetTypeOK'
        /\ running' \in [Services -> BOOLEAN]
        /\ fd' \in [Services -> BOOLEAN]
        /\ children' \in [Services -> SUBSET Pids]
        /\ proctable' \in [Pids -> {"none", "hooked", "freed"}]
        /\ secount' \in [Services -> 0 .. TooMany]
    BY <2>1, CloseSepType DEF TypeInv
  <2> QED
    BY <1>8, <2>1, <2>2 DEF ConfigReset, NetTypeOK, TypeInv, TypeOK, WorkerTypeOK, MainTypeOK,
       workVars, sigVars
<1>9. ASSUME ConfigKeep PROVE TypeInv'
  BY <1>9 DEF ConfigKeep, TypeInv, TypeOK, WorkerTypeOK, MainTypeOK,
     svcVars, netVars, procVars, workVars, mainVars, sigVars
<1>10. ASSUME ConfigEnable PROVE TypeInv'
  <2>1. Up /\ NetTypeOK /\ msvc \in Services
    BY <1>10 DEF ConfigEnable, NetTypeOK, TypeInv, TypeOK, MainTypeOK
  <2>2. /\ NetTypeOK'
        /\ running' \in [Services -> BOOLEAN]
        /\ fd' \in [Services -> BOOLEAN]
        /\ timingout' \in BOOLEAN
        /\ down' \in {"no", "software"}
    <3>1. CASE Setup(msvc)
      BY <2>1, <3>1, SetupType DEF TypeInv, TypeOK
    <3>2. CASE Enable(msvc) /\ UNCHANGED <<fd, timingout>>
      BY <2>1, <3>2, EnableType DEF TypeInv, TypeOK
    <3>3. CASE UNCHANGED <<running, netVars, down, fd, timingout>>
      BY <2>1, <3>3 DEF Up, netVars, NetTypeOK, TypeInv, TypeOK
    <3> QED
      BY <1>10, <3>1, <3>2, <3>3 DEF ConfigEnable
  <2> QED
    BY <1>10, <2>2 DEF ConfigEnable, NetTypeOK, TypeInv, TypeOK, WorkerTypeOK, MainTypeOK,
       procVars, workVars
<1>11. ASSUME ConfigSwap PROVE TypeInv'
  BY <1>11 DEF ConfigSwap, TypeInv, TypeOK, WorkerTypeOK, MainTypeOK,
     svcVars, netVars, procVars, workVars, mainVars, sigVars
<1>12. ASSUME ConfigDone PROVE TypeInv'
  BY <1>12 DEF ConfigDone, TypeInv, TypeOK, WorkerTypeOK, MainTypeOK,
     svcVars, netVars, procVars, workVars, mainVars, sigVars
<1> QED
  BY <1>1, <1>2, <1>3, <1>4, <1>5, <1>6, <1>7, <1>8, <1>9, <1>10, <1>11, <1>12 DEF Config

LEMMA NextType == TypeInv /\ [Next]_vars => TypeInv'
<1> SUFFICES ASSUME TypeInv, [Next]_vars PROVE TypeInv'
  OBVIOUS
<1>1. CASE Environment \/ Timer
  BY <1>1, EnvironmentType
<1>2. ASSUME NEW w \in Workers, Worker(w) PROVE TypeInv'
  BY <1>2, WorkerType
<1>3. CASE Reap
  BY <1>3, ReapType
<1>4. CASE TakeAlrm \/ RetryDone \/ TakeTerm
  <2>1. CASE TakeAlrm
    BY <2>1 DEF TakeAlrm, TakeSignal, MainPc, TypeInv, TypeOK, WorkerTypeOK, MainTypeOK,
       svcVars, netVars, procVars, workVars
  <2>2. CASE RetryDone
    BY <2>2 DEF RetryDone, MainPc, TypeInv, TypeOK, WorkerTypeOK, MainTypeOK, svcVars,
       netVars, procVars, workVars, sigVars
  <2>3. CASE TakeTerm
    BY <2>3 DEF TakeTerm, TakeSignal, TypeInv, TypeOK, WorkerTypeOK, MainTypeOK, svcVars,
       netVars, procVars, workVars, mainVars
  <2> QED
    BY <1>4, <2>1, <2>2, <2>3
<1>5. ASSUME NEW s \in Services, Retry(s) PROVE TypeInv'
  BY <1>5, RetryType
<1>6. CASE Config
  BY <1>6, ConfigType
<1>7. CASE UNCHANGED vars
  BY <1>7 DEF vars, TypeInv, TypeOK, WorkerTypeOK, MainTypeOK,
     svcVars, netVars, procVars, workVars, mainVars, sigVars
<1> QED
  BY <1>1, <1>2, <1>3, <1>4, <1>5, <1>6, <1>7 DEF Next, Main

\* Every variable keeps its type, and every thread holds the servtab and the process its
\* place in the code needs.
THEOREM TypeSafety == Spec => []TypeInv
<1>1. Init => TypeInv
  BY InitType
<1>2. TypeInv /\ [Next]_vars => TypeInv'
  BY NextType
<1> QED
  BY <1>1, <1>2, PTL DEF Spec

\* The state of inetd.cpp, of its workers and of its main thread is what its types say.
THEOREM TypeCorrect == Spec => []TypeOK
<1>1. TypeInv => TypeOK
  BY DEF TypeInv
<1> QED
  BY <1>1, TypeSafety, PTL

-----------------------------------------------------------------------------
(* The table: which services may be open, at each point of config() and    *)
(* retry().                                                                *)

Configuring == mpc \in {"config", "adjust", "reset", "enable"}

\* What the loops of retry(), config() and its purge still have to do.
LoopInv ==
  /\ mpc = "retry" => todo \subseteq inTable
  /\ Configuring => todo \subseteq mnew
  /\ mpc \in {"adjust", "reset", "enable"} => msvc \in mnew \ todo

\* Services that may be open: those of the table, those config() has reached, and those
\* its purge has not.
Listed(s) ==
  \/ s \in inTable
  \/ Configuring /\ s \in mnew \ todo
  \/ mpc = "purge" /\ s \in todo

OpenInv ==
  Up => \A s \in Services : (running[s] => fd[s]) /\ (fd[s] => Listed(s))

TableInv == LoopInv /\ OpenInv

\* What the helpers do to running and fd.
LEMMA DisableOpen ==
  ASSUME TypeInv, NEW s \in Services, Disable(s)
  PROVE  \A r \in Services : running'[r] => running[r]
BY DEF Disable, TypeInv, TypeOK

LEMMA EnableOpen ==
  ASSUME TypeInv, NEW s \in Services, Enable(s), Up'
  PROVE  \A r \in Services : running'[r] => running[r] \/ (r = s /\ fd[s])
BY DEF Enable, TerminateMain, Up, TypeInv, TypeOK

LEMMA CloseSepOpen ==
  ASSUME TypeInv, NEW s \in Services, CloseSep(s)
  PROVE  \A r \in Services : /\ running'[r] => running[r] /\ r # s
                             /\ fd'[r] <=> fd[r] /\ r # s
BY DEF CloseSep, TypeInv, TypeOK

LEMMA SetupOpen ==
  ASSUME TypeInv, NEW s \in Services, Setup(s)
  PROVE  \A r \in Services : /\ running'[r] => running[r] \/ (r = s /\ fd'[s])
                             /\ fd'[r] => fd[r] \/ r = s
                             /\ fd[r] => fd'[r]
BY DEF Setup, TypeInv, TypeOK

\* A step of a worker, of the network or of the timer opens nothing.
LEMMA TableKept ==
  ASSUME TableInv, Up' => Up, UNCHANGED <<inTable, mpc, msvc, todo, mnew>>,
         \A r \in Services : /\ running'[r] => running[r]
                             /\ running'[r] /\ fd[r] => fd'[r]
                             /\ fd'[r] => fd[r]
  PROVE  TableInv'
BY DEF TableInv, LoopInv, OpenInv, Listed, Configuring

\* The workers leave the table and the main thread alone.
LEMMA WorkerLeaves ==
  ASSUME NEW w \in Workers, Worker(w)
  PROVE  Up /\ UNCHANGED <<inTable, mpc, msvc, todo, mnew>>
<1>1. CASE \E s \in Services : DequeueConnection(w, s) \/ DequeueFailure(w, s)
  BY <1>1 DEF DequeueConnection, DequeueFailure, svcVars, mainVars
<1>2. CASE Refuse(w) \/ Admit(w) \/ Looping(w) \/ LoopingAlarm(w)
  BY <1>2 DEF Refuse, Admit, Looping, LoopingAlarm, svcVars, mainVars
<1>3. CASE (\E p \in Pids : Fork(w, p)) \/ ForkError(w) \/ AddProc(w) \/ AddDuplicate(w)
  BY <1>3 DEF Fork, ForkError, AddProc, AddDuplicate, svcVars, mainVars
<1>4. CASE AddCorrupt(w) \/ Link(w) \/ LinkCorrupt(w)
  BY <1>4 DEF AddCorrupt, Link, LinkCorrupt, Corrupt, svcVars, mainVars
<1> QED
  BY <1>1, <1>2, <1>3, <1>4 DEF Worker

LEMMA TableWorker ==
  ASSUME TypeInv, TableInv, NEW w \in Workers, Worker(w) PROVE TableInv'
<1>1. Up /\ UNCHANGED <<inTable, mpc, msvc, todo, mnew>>
  BY WorkerLeaves
<1>2. \A r \in Services : /\ running'[r] => running[r]
                          /\ running'[r] /\ fd[r] => fd'[r]
                          /\ fd'[r] => fd[r]
  <2>1. CASE Looping(w)
    BY <2>1, CloseSepOpen DEF Looping, TypeInv, WorkerTypeOK
  <2>2. CASE Link(w)
    <3>1. wsvc[w] \in Services
      BY <2>2 DEF Link, TypeInv, WorkerTypeOK
    <3> QED
      BY <2>2, <3>1, DisableOpen DEF Link
  <2>3. CASE UNCHANGED <<running, fd>>
    BY <2>3
  <2> QED
    BY <2>1, <2>2, <2>3 DEF Worker, DequeueConnection, DequeueFailure, Refuse, Admit,
       LoopingAlarm, Fork, ForkError, AddProc, AddDuplicate, AddCorrupt, LinkCorrupt,
       Corrupt, svcVars
<1> QED
  BY <1>1, <1>2, TableKept

LEMMA TableEnvironment ==
  ASSUME TableInv, Environment \/ Timer PROVE TableInv'
<1>1. Up /\ UNCHANGED <<inTable, running, fd, mpc, msvc, todo, mnew>>
  BY DEF Environment, Timer, Connect, ConnectReset, ChildExit, RaiseHup, TimerExpire,
     TimerFlag, svcVars, mainVars
<1> QED
  BY <1>1, TableKept

\* reapchild() starts a service only if it is open: otherwise enable() ends the daemon.
LEMMA TableReap ==
  ASSUME TypeInv, TableInv, Reap PROVE TableInv'
<1>1. CASE SearchCorrupt \/ UnlinkCorrupt \/ FreeCorrupt
  BY <1>1, TableKept DEF SearchCorrupt, UnlinkCorrupt, FreeCorrupt, Corrupt, svcVars, mainVars
<1>2. CASE ~(SearchCorrupt \/ UnlinkCorrupt \/ FreeCorrupt)
  <2> DEFINE Reaping == {"select", "reap", "search", "unlink", "free"}
  <2>1. /\ Up /\ mpc \in Reaping /\ mpc' \in Reaping
        /\ UNCHANGED <<inTable, fd, msvc, todo, mnew>>
    BY <1>2 DEF Reap, TakeChld, TakeSignal, WaitNone, WaitChild, SearchMiss, SearchHit,
       Unlink, FreeProc, svcVars
  <2>2. Up' => \A r \in Services : running'[r] => running[r] \/ fd[r]
    <3>1. CASE Unlink
      BY <3>1, EnableOpen DEF Unlink
    <3>2. CASE UNCHANGED running
      BY <3>2
    <3> QED
      BY <1>2, <3>1, <3>2 DEF Reap, TakeChld, WaitNone, WaitChild, SearchMiss, SearchHit,
         FreeProc, svcVars
  <2> QED
    BY <2>1, <2>2 DEF TableInv, LoopInv, OpenInv, Listed, Configuring
<1> QED
  BY <1>1, <1>2

LEMMA TableRetry ==
  ASSUME TypeInv, TableInv, NEW s \in Services, Retry(s) PROVE TableInv'
<1>1. Up /\ s \in inTable /\ mpc = "retry" /\ mpc' = "retry" /\ todo' \subseteq inTable'
  BY DEF Retry, TableInv, LoopInv
<1>2. \A r \in Services : /\ running'[r] => running[r] \/ (r = s /\ fd'[s])
                          /\ fd'[r] => fd[r] \/ r = s
                          /\ fd[r] => fd'[r]
  BY SetupOpen DEF Retry
<1> QED
  BY <1>1, <1>2 DEF Retry, TableInv, LoopInv, OpenInv, Listed, Configuring

LEMMA TableConfig ==
  ASSUME TypeInv, TableInv, Config PROVE TableInv'
<1> USE DEF TableInv, LoopInv, OpenInv, Listed, Configuring
<1>1. CASE TakeHup \/ TakeHupNoFile
  BY <1>1 DEF TakeHup, TakeHupNoFile, TakeSignal, svcVars, mainVars
<1>2. CASE ConfigAbort
  BY <1>2 DEF ConfigAbort, TerminateMain, Up, svcVars, mainVars
<1>3. ASSUME NEW s \in Services, ConfigOld(s) PROVE TableInv'
  BY <1>3 DEF ConfigOld
<1>4. ASSUME NEW s \in Services, ConfigNew(s) PROVE TableInv'
  BY <1>4 DEF ConfigNew, TypeInv, TypeOK
<1>5. ASSUME NEW s \in Services, ConfigPurge(s) PROVE TableInv'
  <2>1. \A r \in Services : /\ running'[r] => running[r] /\ r # s
                            /\ fd'[r] <=> fd[r] /\ r # s
    BY <1>5, CloseSepOpen DEF ConfigPurge
  <2> QED
    BY <1>5, <2>1 DEF ConfigPurge
<1>6. CASE ConfigAdjust
  <2>1. \A r \in Services : running'[r] => running[r]
    BY <1>6, DisableOpen DEF ConfigAdjust, TypeInv, MainTypeOK
  <2> QED
    BY <1>6, <2>1 DEF ConfigAdjust
<1>7. CASE ConfigReset
  <2>1. \A r \in Services : /\ running'[r] => running[r] /\ r # msvc
                            /\ fd'[r] <=> fd[r] /\ r # msvc
    BY <1>7, CloseSepOpen DEF ConfigReset, TypeInv, MainTypeOK
  <2> QED
    BY <1>7, <2>1 DEF ConfigReset
<1>8. CASE ConfigKeep
  BY <1>8 DEF ConfigKeep, svcVars
<1>9. CASE ConfigEnable
  <2>1. msvc \in Services /\ Up
    BY <1>9 DEF ConfigEnable, TypeInv, MainTypeOK
  <2>2. Up' => \A r \in Services : /\ running'[r] => running[r] \/ (r = msvc /\ fd'[msvc])
                                   /\ fd'[r] => fd[r] \/ r = msvc
                                   /\ fd[r] => fd'[r]
    <3>1. CASE Setup(msvc)
      BY <2>1, <3>1, SetupOpen
    <3>2. CASE Enable(msvc) /\ UNCHANGED fd
      BY <2>1, <3>2, EnableOpen
    <3>3. CASE UNCHANGED <<running, fd>>
      BY <3>3
    <3> QED
      BY <1>9, <3>1, <3>2, <3>3 DEF ConfigEnable
  <2> QED
    BY <1>9, <2>1, <2>2 DEF ConfigEnable
<1>10. CASE ConfigSwap
  BY <1>10 DEF ConfigSwap
<1>11. CASE ConfigDone
  BY <1>11 DEF ConfigDone, svcVars
<1> QED
  BY <1>1, <1>2, <1>3, <1>4, <1>5, <1>6, <1>7, <1>8, <1>9, <1>10, <1>11 DEF Config

LEMMA TableInit == Init => TableInv
BY DEF Init, TableInv, LoopInv, OpenInv, Listed, Configuring

LEMMA TableNext == TypeInv /\ TableInv /\ [Next]_vars => TableInv'
<1> SUFFICES ASSUME TypeInv, TableInv, [Next]_vars PROVE TableInv'
  OBVIOUS
<1>1. CASE Environment \/ Timer
  BY <1>1, TableEnvironment
<1>2. ASSUME NEW w \in Workers, Worker(w) PROVE TableInv'
  BY <1>2, TableWorker
<1>3. CASE Reap
  BY <1>3, TableReap
<1>4. CASE TakeAlrm \/ RetryDone \/ TakeTerm
  BY <1>4 DEF TakeAlrm, RetryDone, TakeTerm, TakeSignal, Up, svcVars, mainVars,
     TableInv, LoopInv, OpenInv, Listed, Configuring
<1>5. ASSUME NEW s \in Services, Retry(s) PROVE TableInv'
  BY <1>5, TableRetry
<1>6. CASE Config
  BY <1>6, TableConfig
<1>7. CASE UNCHANGED vars
  BY <1>7, TableKept DEF vars, svcVars, mainVars, Up
<1> QED
  BY <1>1, <1>2, <1>3, <1>4, <1>5, <1>6, <1>7 DEF Next, Main

\* Only services that are configured, or that config() is working on, are open.
THEOREM TableSafety == Spec => []TableInv
<1>1. Init => TypeInv /\ TableInv
  BY InitType, TableInit
<1>2. (TypeInv /\ TableInv) /\ [Next]_vars => (TypeInv /\ TableInv)'
  BY NextType, TableNext
<1> QED
  BY <1>1, <1>2, PTL DEF Spec

\* A service that is no longer configured stays closed, whatever its workers and children
\* still do: config() and close_sep() close it, and nothing reopens it.
THEOREM RemovedStaysClosed == Spec => []RemovedIsClosed
<1>1. TableInv => RemovedIsClosed
  BY DEF TableInv, OpenInv, Listed, Configuring, RemovedIsClosed
<1> QED
  BY <1>1, TableSafety, PTL

-----------------------------------------------------------------------------
(* The children of a service and the workers about to add one.             *)

NumWorkers == Cardinality(Workers)
Load(s) == Count(s) + Cardinality(InFlight(s))

LEMMA LoadTypes ==
  ASSUME TypeInv, NEW s \in Services
  PROVE  /\ IsFiniteSet(children[s]) /\ Count(s) \in Nat
         /\ IsFiniteSet(InFlight(s)) /\ Cardinality(InFlight(s)) \in 0 .. NumWorkers
         /\ NumWorkers \in Nat
<1>1. IsFiniteSet(Workers) /\ IsFiniteSet(Pids)
  BY InetdAssumption DEF InetdAssumption
<1>2. InFlight(s) \subseteq Workers /\ children[s] \subseteq Pids
  BY DEF InFlight, TypeInv, TypeOK
<1> QED
  BY <1>1, <1>2, FS_Subset, FS_CardinalityType DEF Count, NumWorkers

\* The bounds that ChildBound joins.
LEMMA ChildBoundTypes ==
  /\ ChildBound \in Nat /\ NumWorkers \in Nat
  /\ NumWorkers <= ChildBound /\ MaxLimit - 1 <= ChildBound
BY InetdAssumption, FS_CardinalityType DEF InetdAssumption, ChildBound, NumWorkers

\* No child of s is added, and no worker is given a connection of s.
Shrinks(s) == children'[s] \subseteq children[s] /\ InFlight(s)' \subseteq InFlight(s)

LEMMA LoadShrinks ==
  ASSUME TypeInv, NEW s \in Services, Shrinks(s)
  PROVE  /\ Count(s)' \in Nat /\ Load(s)' \in Nat
         /\ Count(s)' <= Count(s) /\ Load(s)' <= Load(s)
<1>1. IsFiniteSet(children[s]) /\ IsFiniteSet(InFlight(s))
  BY LoadTypes
<1>2. /\ Cardinality(children'[s]) <= Cardinality(children[s])
      /\ IsFiniteSet(children'[s])
  BY <1>1, FS_Subset DEF Shrinks
<1>3. /\ Cardinality(InFlight(s)') <= Cardinality(InFlight(s))
      /\ IsFiniteSet(InFlight(s)')
  BY <1>1, FS_Subset DEF Shrinks
<1>4. /\ Cardinality(children'[s]) \in Nat /\ Cardinality(children[s]) \in Nat
      /\ Cardinality(InFlight(s)') \in Nat /\ Cardinality(InFlight(s)) \in Nat
  BY <1>1, <1>2, <1>3, FS_CardinalityType
<1> QED
  BY <1>2, <1>3, <1>4 DEF Load, Count

\* Only DequeueConnection and Link raise what a service has to carry.
LEMMA MostStepsShrink ==
  ASSUME TypeInv, Next,
         \A w \in Workers : ~Link(w) /\ \A s \in Services : ~DequeueConnection(w, s)
  PROVE  \A s \in Services : Shrinks(s)
<1>1. \A s \in Services : children'[s] \subseteq children[s]
  <2>0. ASSUME NEW c \in Services, CloseSep(c)
        PROVE  \A s \in Services : children'[s] \subseteq children[s]
    BY <2>0 DEF CloseSep, TypeInv, TypeOK
  <2>1. ASSUME NEW w \in Workers, Worker(w)
        PROVE  \A s \in Services : children'[s] \subseteq children[s]
    <3>1. CASE Looping(w)
      BY <2>0, <3>1 DEF Looping, TypeInv, WorkerTypeOK
    <3>2. CASE UNCHANGED children
      BY <3>2
    <3> QED
      BY <2>1, <3>1, <3>2 DEF Worker, DequeueFailure, Refuse, Admit, LoopingAlarm, Fork,
         ForkError, AddProc, AddDuplicate, AddCorrupt, LinkCorrupt, Corrupt, svcVars
  <2>2. CASE Reap
    <3>1. CASE Unlink
      BY <3>1 DEF Unlink, TypeInv, TypeOK
    <3>2. CASE FreeProc
      BY <3>2 DEF FreeProc
    <3>3. CASE UNCHANGED children
      BY <3>3
    <3> QED
      BY <2>2, <3>1, <3>2, <3>3 DEF Reap, TakeChld, WaitNone, WaitChild, SearchMiss, SearchHit,
         SearchCorrupt, UnlinkCorrupt, FreeCorrupt, Corrupt, svcVars
  <2>3. CASE Config
    <3>1. CASE ConfigReset \/ \E s \in Services : ConfigPurge(s)
      BY <2>0, <3>1 DEF ConfigReset, ConfigPurge, TypeInv, MainTypeOK
    <3>2. CASE UNCHANGED children
      BY <3>2
    <3> QED
      BY <2>3, <3>1, <3>2 DEF Config, TakeHup, TakeHupNoFile, ConfigAbort, ConfigOld,
         ConfigNew, ConfigAdjust, ConfigKeep, ConfigEnable, ConfigSwap, ConfigDone, svcVars
  <2>4. CASE UNCHANGED children
    BY <2>4
  <2> QED
    BY <2>1, <2>2, <2>3, <2>4 DEF Next, Environment, Timer, Main, Connect, ConnectReset,
       ChildExit, RaiseHup, TimerExpire, TimerFlag, TakeAlrm, Retry, RetryDone, TakeTerm,
       svcVars
<1>2. \A s \in Services : InFlight(s)' \subseteq InFlight(s)
  <2>1. ASSUME NEW w \in Workers, Worker(w)
        PROVE  \A s \in Services : InFlight(s)' \subseteq InFlight(s)
    <3>1. CASE \E s \in Services : DequeueFailure(w, s)
      BY <3>1 DEF DequeueFailure, workVars, InFlight, Busy
    <3>2. CASE Refuse(w) \/ LoopingAlarm(w) \/ ForkError(w) \/ AddDuplicate(w)
      BY <3>2 DEF Refuse, LoopingAlarm, ForkError, AddDuplicate, ToIdle, InFlight, Busy,
         TypeInv, TypeOK
    <3>3. CASE Admit(w) \/ Looping(w) \/ AddProc(w) \/ \E p \in Pids : Fork(w, p)
      <4>1. /\ wsvc' = wsvc /\ Busy(w)
            /\ \E pc \in WorkerPc : wpc' = [wpc EXCEPT ![w] = pc]
        BY <3>3 DEF Admit, Looping, AddProc, Fork, Busy, WorkerPc
      <4>2. \A v \in Workers \ {w} : wpc'[v] = wpc[v]
        BY <4>1 DEF TypeInv, TypeOK
      <4> QED
        BY <4>1, <4>2 DEF InFlight, Busy
    <3>4. CASE AddCorrupt(w) \/ LinkCorrupt(w)
      BY <3>4 DEF AddCorrupt, LinkCorrupt, Corrupt, workVars, InFlight, Busy
    <3> QED
      BY <2>1, <3>1, <3>2, <3>3, <3>4 DEF Worker
  <2>2. CASE UNCHANGED workVars
    BY <2>2 DEF workVars, InFlight, Busy
  <2> QED
    BY <2>1, <2>2 DEF Next, Environment, Timer, Main, Reap, Config, Connect, ConnectReset,
       ChildExit, RaiseHup, TimerExpire, TimerFlag, TakeAlrm, Retry, RetryDone, TakeTerm,
       TakeChld, WaitNone, WaitChild, SearchMiss, SearchHit, SearchCorrupt, Unlink,
       UnlinkCorrupt, FreeProc, FreeCorrupt, Corrupt, TakeHup, TakeHupNoFile, ConfigAbort,
       ConfigOld, ConfigNew, ConfigPurge, ConfigAdjust, ConfigReset, ConfigKeep, ConfigEnable,
       ConfigSwap, ConfigDone
<1> QED
  BY <1>1, <1>2 DEF Shrinks

\* A worker is given a connection: only a running service is carried further.
LEMMA DequeueGrows ==
  ASSUME TypeInv, NEW w \in Workers, NEW s \in Services, DequeueConnection(w, s)
  PROVE  /\ UNCHANGED <<children, running, fd, maxchild>>
         /\ \A r \in Services : running[r] \/ Shrinks(r)
<1>1. UNCHANGED <<children, running, fd, maxchild>>
  BY DEF DequeueConnection, svcVars
<1>2. CASE running[s]
  BY <1>1, <1>2 DEF DequeueConnection, Shrinks, InFlight, Busy, TypeInv, TypeOK
<1>3. CASE ~running[s]
  BY <1>1, <1>3 DEF DequeueConnection, Shrinks, InFlight, Busy
<1> QED
  BY <1>1, <1>2, <1>3

\* A worker turns into a child: the sum stays, and below the limit the service runs on.
LEMMA LinkMoves ==
  ASSUME TypeInv, NEW w \in Workers, NEW s \in Services, wsvc[w] = s, Link(w)
  PROVE  /\ w \in InFlight(s)
         /\ Load(s)' <= Load(s) /\ Load(s)' \in Nat /\ Count(s)' \in Nat
         /\ \A r \in Services : r # s => Shrinks(r)
<1>1. w \in InFlight(s)
  BY DEF Link, InFlight, Busy
<1>2. PICK p \in Pids : /\ p = wpid[w]
                        /\ children' = [children EXCEPT ![s] = @ \cup {p}]
  BY DEF Link, TypeInv, WorkerTypeOK
<1>3. /\ InFlight(s)' = InFlight(s) \ {w}
      /\ \A r \in Services : r # s => InFlight(r)' \subseteq InFlight(r)
  <2>1. /\ wpc'[w] = "idle" /\ \A v \in Workers \ {w} : wpc'[v] = wpc[v]
        /\ \A v \in Workers \ {w} : wsvc'[v] = wsvc[v]
    BY DEF Link, ToIdle, TypeInv, TypeOK
  <2>2. ~Busy(w)'
    BY <2>1 DEF Busy
  <2>3. \A v \in Workers \ {w} : Busy(v)' <=> Busy(v)
    BY <2>1 DEF Busy
  <2> QED
    BY <2>1, <2>2, <2>3 DEF InFlight
<1>4. \A r \in Services : r # s => Shrinks(r)
  BY <1>2, <1>3 DEF Shrinks, TypeInv, TypeOK
<1>5. /\ Cardinality(children[s] \cup {p}) \in Nat /\ Cardinality(children[s]) \in Nat
      /\ Cardinality(children[s] \cup {p}) <= Cardinality(children[s]) + 1
  <2>1. IsFiniteSet(children[s]) /\ Cardinality(children[s]) \in Nat
    BY LoadTypes, FS_CardinalityType
  <2>2. Cardinality(children[s] \cup {p}) =
          IF p \in children[s] THEN Cardinality(children[s]) ELSE Cardinality(children[s]) + 1
    BY <2>1, FS_AddElement
  <2> QED
    BY <2>1, <2>2
<1>6. /\ Cardinality(InFlight(s) \ {w}) \in Nat /\ Cardinality(InFlight(s)) \in Nat
      /\ Cardinality(InFlight(s) \ {w}) = Cardinality(InFlight(s)) - 1
  <2>1. IsFiniteSet(InFlight(s))
    BY LoadTypes
  <2>2. IsFiniteSet(InFlight(s) \ {w})
    BY <2>1, FS_RemoveElement
  <2> QED
    BY <1>1, <2>1, <2>2, FS_RemoveElement, FS_CardinalityType
<1>7. children'[s] = children[s] \cup {p}
  BY <1>2 DEF TypeInv, TypeOK
<1> QED
  BY <1>1, <1>3, <1>4, <1>5, <1>6, <1>7 DEF Load, Count

-----------------------------------------------------------------------------
(* A servtab that config() has not reached yet has no children and no      *)
(* workers, so that ConfigNew starts from nothing.                         *)

FreshInv ==
  Configuring => \A s \in todo \ inTable : children[s] = {} /\ InFlight(s) = {}

LEMMA FreshInit == Init => FreshInv
BY DEF Init, FreshInv, InFlight, Busy

\* As long as config()'s loop only goes on, and the servtabs it has not reached shrink.
LEMMA FreshKept ==
  ASSUME TypeInv, FreshInv,
         Configuring' => Configuring /\ todo' \subseteq todo /\ inTable' = inTable,
         Configuring => \A s \in todo \ inTable : Shrinks(s)
  PROVE  FreshInv'
BY DEF FreshInv, Shrinks

LEMMA FreshNext == TypeInv /\ TableInv /\ FreshInv /\ [Next]_vars => FreshInv'
<1> SUFFICES ASSUME TypeInv, TableInv, FreshInv, [Next]_vars PROVE FreshInv'
  OBVIOUS
<1>1. todo \subseteq Services
  BY DEF TypeInv, TypeOK
<1>2. ASSUME NEW w \in Workers, NEW s \in Services, DequeueConnection(w, s) PROVE FreshInv'
  <2>1. Up /\ UNCHANGED <<mpc, todo, inTable>>
    BY <1>2 DEF DequeueConnection, mainVars, svcVars
  <2>2. Configuring => \A r \in todo \ inTable : Shrinks(r)
    BY <1>1, <1>2, <2>1, DequeueGrows DEF TableInv, OpenInv, Listed, Configuring
  <2> QED
    BY <2>1, <2>2, FreshKept DEF Configuring
<1>3. ASSUME NEW w \in Workers, Link(w) PROVE FreshInv'
  <2>1. UNCHANGED <<mpc, todo, inTable>> /\ wsvc[w] \in Services
    BY <1>3 DEF Link, mainVars, TypeInv, WorkerTypeOK
  <2>2. w \in InFlight(wsvc[w]) /\ \A r \in Services : r # wsvc[w] => Shrinks(r)
    BY <1>3, <2>1, LinkMoves
  <2>3. Configuring => \A r \in todo \ inTable : Shrinks(r)
    BY <1>1, <2>2 DEF FreshInv
  <2> QED
    BY <2>1, <2>3, FreshKept DEF Configuring
<1>4. CASE TakeHup
  <2>1. \A s \in todo' \ inTable' : Fresh(s)
    BY <1>4 DEF TakeHup, svcVars
  <2>2. UNCHANGED <<children, wpc, wsvc, inTable>>
    BY <1>4 DEF TakeHup, svcVars, workVars
  <2> QED
    BY <2>1, <2>2 DEF FreshInv, Fresh, Referenced, InFlight, Busy
<1>5. CASE /\ Next /\ ~TakeHup
           /\ \A w \in Workers : ~Link(w) /\ \A s \in Services : ~DequeueConnection(w, s)
  <2>1. \A s \in Services : Shrinks(s)
    BY <1>5, MostStepsShrink
  <2>2. Configuring' => Configuring /\ todo' \subseteq todo /\ inTable' = inTable
    <3>1. CASE Config
      BY <1>5, <3>1 DEF Config, TakeHupNoFile, TakeSignal, ConfigAbort, ConfigOld, ConfigNew,
         ConfigPurge, ConfigAdjust, ConfigReset, ConfigKeep, ConfigEnable, ConfigSwap,
         ConfigDone, Configuring, svcVars, mainVars
    <3>2. CASE Reap \/ TakeAlrm \/ RetryDone \/ TakeTerm \/ \E s \in Services : Retry(s)
      BY <3>2 DEF Reap, TakeChld, WaitNone, WaitChild, SearchMiss, SearchHit, SearchCorrupt,
         Unlink, UnlinkCorrupt, FreeProc, FreeCorrupt, Corrupt, TakeAlrm, Retry, RetryDone,
         TakeTerm, TakeSignal, Configuring, svcVars, mainVars
    <3>3. CASE Environment \/ Timer \/ \E w \in Workers : Worker(w)
      <4>1. CASE Environment \/ Timer
        BY <4>1 DEF Environment, Timer, Connect, ConnectReset, ChildExit, RaiseHup,
           TimerExpire, TimerFlag, Configuring, svcVars, mainVars
      <4>2. CASE \E w \in Workers : Worker(w)
        BY <4>2, WorkerLeaves DEF Configuring
      <4> QED
        BY <3>3, <4>1, <4>2
    <3> QED
      BY <1>5, <3>1, <3>2, <3>3 DEF Next, Main
  <2> QED
    BY <1>1, <2>1, <2>2, FreshKept
<1>6. CASE UNCHANGED vars
  BY <1>6 DEF vars, svcVars, workVars, mainVars, FreshInv, InFlight, Busy, Configuring
<1> QED
  BY <1>2, <1>3, <1>4, <1>5, <1>6

-----------------------------------------------------------------------------
(* The limit.  A running service has at most ChildBound children; a service *)
(* without a socket has no more children and workers than there are workers *)
(* (close_sep() forgets the children); and no service that may be started   *)
(* carries more than both bounds together.                                  *)

ClosedLoad  == Up => \A s \in Services : ~fd[s] => Load(s) <= NumWorkers
RunningLoad == Up => \A s \in Services : running[s] => Count(s) <= ChildBound
LoadBound   == \A s \in Services : Load(s) <= ChildBound + NumWorkers

LoadInv == 0 \notin Limits => ClosedLoad /\ RunningLoad /\ LoadBound

\* A service with room for one more child is within ChildBound.
LEMMA RoomIsBounded ==
  ASSUME TypeInv, 0 \notin Limits, NEW s \in Services, NEW n \in Nat, ~Exceeds(s, n)
  PROVE  n <= ChildBound
<1>1. maxchild[s] \in Limits
  BY DEF TypeInv, TypeOK
<1>2. Limits \subseteq 0 .. MaxLimit /\ MaxLimit \in Nat
  BY InetdAssumption DEF InetdAssumption
<1>3. maxchild[s] \in 0 .. MaxLimit /\ maxchild[s] # 0
  BY <1>1, <1>2
<1>4. n <= MaxLimit - 1
  BY <1>2, <1>3 DEF Exceeds
<1> QED
  BY <1>2, <1>4, ChildBoundTypes

\* How a step that only shrinks keeps the bounds: what it closes it empties, and what it
\* starts was closed or has room.
LEMMA LoadKept ==
  ASSUME TypeInv, TypeInv', LoadInv, 0 \notin Limits, Up' => Up,
         \A s \in Services : Shrinks(s),
         Up' => \A s \in Services : ~fd'[s] => ~fd[s] \/ children'[s] = {},
         Up' => \A s \in Services :
                  running'[s] => running[s] \/ ~fd[s] \/ Count(s)' <= ChildBound
  PROVE  LoadInv'
<1>1. \A s \in Services : /\ Count(s)' <= Count(s) /\ Load(s)' <= Load(s)
                          /\ Count(s)' \in Nat /\ Load(s)' \in Nat
  BY LoadShrinks
<1>2. \A s \in Services : Count(s) \in Nat /\ Load(s) \in Nat /\ Count(s) <= Load(s)
  BY LoadTypes DEF Load
<1>3. ChildBound \in Nat /\ NumWorkers \in Nat /\ NumWorkers <= ChildBound
  BY ChildBoundTypes
<1>4. LoadBound'
  BY <1>1, <1>2, <1>3 DEF LoadInv, LoadBound, NumWorkers, ChildBound
<1>5. ClosedLoad'
  <2>1. SUFFICES ASSUME Up', NEW s \in Services, ~fd'[s]
                 PROVE  Load(s)' <= NumWorkers
    BY DEF ClosedLoad, NumWorkers
  <2>2. CASE ~fd[s]
    BY <1>1, <1>2, <1>3, <2>1, <2>2 DEF LoadInv, ClosedLoad
  <2>3. CASE children'[s] = {}
    <3>1. Count(s)' = 0
      BY <2>3, FS_EmptySet DEF Count
    <3>2. Cardinality(InFlight(s)') \in 0 .. NumWorkers
      BY <1>3, LoadTypes, FS_Subset, FS_CardinalityType DEF Shrinks
    <3> QED
      BY <1>3, <3>1, <3>2 DEF Load
  <2> QED
    BY <2>1, <2>2, <2>3
<1>6. RunningLoad'
  <2>1. SUFFICES ASSUME Up', NEW s \in Services, running'[s]
                 PROVE  Count(s)' <= ChildBound
    BY DEF RunningLoad, ChildBound
  <2>2. CASE running[s]
    BY <1>1, <1>2, <1>3, <2>1, <2>2 DEF LoadInv, RunningLoad
  <2>3. CASE ~fd[s]
    BY <1>1, <1>2, <1>3, <2>1, <2>3 DEF LoadInv, ClosedLoad
  <2> QED
    BY <2>1, <2>2, <2>3
<1> QED
  BY <1>4, <1>5, <1>6 DEF LoadInv

LEMMA LoadDequeue ==
  ASSUME TypeInv, TypeInv', TableInv, LoadInv, 0 \notin Limits,
         NEW w \in Workers, NEW s \in Services, DequeueConnection(w, s)
  PROVE  LoadInv'
<1>1. Up /\ Up' /\ UNCHANGED <<children, running, fd>>
  BY DequeueGrows DEF DequeueConnection, Up
<1>2. \A r \in Services : running[r] => fd[r]
  BY <1>1 DEF TableInv, OpenInv
<1>3. ChildBound \in Nat /\ NumWorkers \in Nat
  BY ChildBoundTypes
<1>4. ASSUME NEW r \in Services
      PROVE  /\ Load(r)' <= ChildBound + NumWorkers
             /\ ~fd[r] => Load(r)' <= NumWorkers
  <2>1. CASE running[r]
    <3>1. Count(r)' = Count(r) /\ Count(r) \in Nat /\ Count(r) <= ChildBound
      BY <1>1, <2>1, LoadTypes DEF Count, LoadInv, RunningLoad
    <3>2. Cardinality(InFlight(r)') \in 0 .. NumWorkers
      <4>1. IsFiniteSet(Workers) /\ InFlight(r)' \subseteq Workers
        BY InetdAssumption DEF InetdAssumption, InFlight
      <4> QED
        BY <4>1, FS_Subset, FS_CardinalityType DEF NumWorkers
    <3> QED
      BY <1>2, <1>3, <2>1, <3>1, <3>2 DEF Load
  <2>2. CASE Shrinks(r)
    <3>1. Load(r)' <= Load(r) /\ Load(r)' \in Nat
      BY <2>2, LoadShrinks
    <3>2. Load(r) \in Nat
      BY LoadTypes DEF Load
    <3> QED
      BY <1>1, <1>3, <3>1, <3>2 DEF LoadInv, LoadBound, ClosedLoad
  <2> QED
    BY <2>1, <2>2, DequeueGrows
<1>5. \A r \in Services : Count(r)' = Count(r)
  BY <1>1 DEF Count
<1> QED
  BY <1>1, <1>4, <1>5 DEF LoadInv, LoadBound, ClosedLoad, RunningLoad, ChildBound, NumWorkers

LEMMA LoadLink ==
  ASSUME TypeInv, TypeInv', LoadInv, 0 \notin Limits, NEW w \in Workers, Link(w)
  PROVE  LoadInv'
<1>1. PICK s \in Services : s = wsvc[w]
  BY DEF Link, TypeInv, WorkerTypeOK
<1>2. Up /\ UNCHANGED <<fd, maxchild>>
  BY DEF Link
<1>3. ChildBound \in Nat /\ NumWorkers \in Nat
  BY ChildBoundTypes
<1>4. \A r \in Services : Load(r)' <= Load(r) /\ Load(r) \in Nat /\ Load(r)' \in Nat
  BY <1>1, LinkMoves, LoadShrinks, LoadTypes DEF Load
<1>5. LoadBound' /\ ClosedLoad'
  BY <1>2, <1>3, <1>4 DEF LoadInv, LoadBound, ClosedLoad, ChildBound, NumWorkers
<1>6. ASSUME NEW r \in Services, running'[r] PROVE Count(r)' <= ChildBound
  <2>1. running[r]
    BY <1>1, <1>6, DisableOpen DEF Link
  <2>2. CASE r = s
    <3>1. children'[s] = children[s] \cup {wpid[w]} /\ ~Exceeds(s, Cardinality(children'[s]))
      BY <1>1, <1>6, <2>2 DEF Link, Disable, TypeInv, TypeOK
    <3>2. Cardinality(children'[s]) \in Nat
      BY <1>1, LinkMoves DEF Count
    <3> QED
      BY <2>2, <3>1, <3>2, RoomIsBounded DEF Count
  <2>3. CASE r # s
    <3>1. Count(r)' <= Count(r) /\ Count(r)' \in Nat /\ Count(r) \in Nat
      BY <1>1, <2>3, LinkMoves, LoadShrinks, LoadTypes
    <3> QED
      BY <1>2, <1>3, <2>1, <3>1 DEF LoadInv, RunningLoad
  <2> QED
    BY <2>2, <2>3
<1>7. RunningLoad'
  BY <1>6 DEF RunningLoad, ChildBound
<1> QED
  BY <1>5, <1>7 DEF LoadInv

\* Enabling below the limit, and setting up what is closed, starts within ChildBound.
Starts ==
  Up' => \A s \in Services :
           running'[s] => running[s] \/ ~fd[s] \/ Count(s)' <= ChildBound

Closes == Up' => \A s \in Services : ~fd'[s] => ~fd[s] \/ children'[s] = {}

LEMMA LoadUnlink ==
  ASSUME TypeInv, 0 \notin Limits, Unlink PROVE Starts /\ Closes
<1>1. PICK s \in Services : Unlink!(s)
  BY DEF Unlink
<1>2. children'[s] = children[s] \ {mpid} /\ fd' = fd /\ Up
  BY <1>1 DEF TypeInv, TypeOK
<1>3. Count(s)' \in Nat
  <2>1. IsFiniteSet(children[s] \ {mpid})
    BY LoadTypes, FS_RemoveElement
  <2> QED
    BY <1>2, <2>1, FS_CardinalityType DEF Count
<1>4. CASE Exceeds(s, Cardinality(children[s] \ {mpid}))
  BY <1>1, <1>2, <1>4 DEF Starts, Closes
<1>5. CASE ~Exceeds(s, Cardinality(children[s] \ {mpid}))
  <2>1. Count(s)' <= ChildBound
    BY <1>2, <1>3, <1>5, RoomIsBounded DEF Count
  <2> QED
    BY <1>1, <1>2, <1>5, <2>1, EnableOpen DEF Starts, Closes
<1> QED
  BY <1>4, <1>5

LEMMA LoadConfig ==
  ASSUME TypeInv, FreshInv, 0 \notin Limits, Config PROVE Starts /\ Closes
<1> USE DEF Starts, Closes
<1>1. ASSUME NEW s \in Services, ConfigNew(s) PROVE Starts /\ Closes
  <2>1. children[s] = {} /\ UNCHANGED children
    BY <1>1 DEF ConfigNew, FreshInv, Configuring
  <2> QED
    BY <1>1, <2>1 DEF ConfigNew, TypeInv, TypeOK
<1>2. ASSUME NEW s \in Services, CloseSep(s) PROVE Starts /\ Closes
  BY <1>2 DEF CloseSep, TypeInv, TypeOK
<1>3. CASE ConfigAdjust
  <2>1. \A r \in Services : running'[r] => running[r]
    BY <1>3, DisableOpen DEF ConfigAdjust, TypeInv, MainTypeOK
  <2> QED
    BY <1>3, <2>1 DEF ConfigAdjust
<1>4. CASE ConfigEnable
  <2>1. msvc \in Services /\ UNCHANGED children
    BY <1>4 DEF ConfigEnable, TypeInv, MainTypeOK
  <2>2. CASE Setup(msvc) /\ ~fd[msvc]
    BY <2>1, <2>2, SetupOpen
  <2>3. CASE Enable(msvc) /\ fd' = fd /\ ~Exceeds(msvc, Count(msvc))
    <3>1. Count(msvc) <= ChildBound
      BY <2>1, <2>3, LoadTypes, RoomIsBounded
    <3>2. \A s \in Services : Count(s)' = Count(s)
      BY <2>1 DEF Count
    <3> QED
      BY <2>1, <2>3, <3>1, <3>2, EnableOpen
  <2>4. CASE UNCHANGED <<running, fd>>
    BY <2>4
  <2> QED
    BY <1>4, <2>2, <2>3, <2>4 DEF ConfigEnable
<1>5. CASE UNCHANGED <<running, fd>>
  BY <1>5
<1> QED
  BY <1>1, <1>2, <1>3, <1>4, <1>5 DEF Config, TakeHup, TakeHupNoFile, ConfigAbort, ConfigOld,
     ConfigPurge, ConfigReset, ConfigKeep, ConfigSwap, ConfigDone, svcVars, TypeInv, MainTypeOK

\* Nothing happens once the daemon is down.
LEMMA NextUp == ASSUME Next PROVE Up
<1>1. CASE Environment \/ Timer
  BY <1>1 DEF Environment, Timer, Connect, ConnectReset, ChildExit, RaiseHup, TimerExpire,
     TimerFlag
<1>2. CASE \E w \in Workers : Worker(w)
  BY <1>2, WorkerLeaves
<1>3. CASE Reap
  BY <1>3 DEF Reap, TakeChld, TakeSignal, WaitNone, WaitChild, SearchMiss, SearchHit,
     SearchCorrupt, Unlink, UnlinkCorrupt, FreeProc, FreeCorrupt
<1>4. CASE TakeAlrm \/ RetryDone \/ TakeTerm \/ \E s \in Services : Retry(s)
  BY <1>4 DEF TakeAlrm, TakeSignal, RetryDone, TakeTerm, Retry
<1>5. CASE Config
  BY <1>5 DEF Config, TakeHup, TakeHupNoFile, TakeSignal, ConfigAbort, ConfigOld, ConfigNew,
     ConfigPurge, ConfigAdjust, ConfigReset, ConfigKeep, ConfigEnable, ConfigSwap, ConfigDone
<1> QED
  BY <1>1, <1>2, <1>3, <1>4, <1>5 DEF Next, Main

LEMMA LoadNext ==
  TypeInv /\ TypeInv' /\ TableInv /\ FreshInv /\ LoadInv /\ [Next]_vars => LoadInv'
<1> SUFFICES ASSUME TypeInv, TypeInv', TableInv, FreshInv, LoadInv, [Next]_vars,
                    0 \notin Limits
             PROVE  LoadInv'
  BY DEF LoadInv
<1>1. ASSUME NEW w \in Workers, NEW s \in Services, DequeueConnection(w, s) PROVE LoadInv'
  BY <1>1, LoadDequeue
<1>2. ASSUME NEW w \in Workers, Link(w) PROVE LoadInv'
  BY <1>2, LoadLink
<1>3. CASE /\ Next
           /\ \A w \in Workers : ~Link(w) /\ \A s \in Services : ~DequeueConnection(w, s)
  <2>1. \A s \in Services : Shrinks(s)
    BY <1>3, MostStepsShrink
  <2>2. Up
    BY <1>3, NextUp
  <2>3. Starts /\ Closes
    <3>1. CASE Config
      BY <3>1, LoadConfig
    <3>2. CASE Unlink
      BY <3>2, LoadUnlink
    <3>3. ASSUME NEW s \in Services, Retry(s) PROVE Starts /\ Closes
      BY <3>3, SetupOpen DEF Retry, Starts, Closes
    <3>4. ASSUME NEW w \in Workers, Looping(w) PROVE Starts /\ Closes
      BY <3>4 DEF Looping, CloseSep, TypeInv, TypeOK, WorkerTypeOK, Starts, Closes
    <3>5. CASE UNCHANGED <<running, fd>>
      BY <3>5 DEF Starts, Closes
    <3> QED
      BY <1>3, <3>1, <3>2, <3>3, <3>4, <3>5 DEF Next, Environment, Timer, Main, Connect,
         ConnectReset, ChildExit, RaiseHup, TimerExpire, TimerFlag, Worker, DequeueFailure,
         Refuse, Admit, LoopingAlarm, Fork, ForkError, AddProc, AddDuplicate, AddCorrupt,
         LinkCorrupt, Reap, TakeChld, WaitNone, WaitChild, SearchMiss, SearchHit,
         SearchCorrupt, UnlinkCorrupt, FreeProc, FreeCorrupt, Corrupt, TakeAlrm, RetryDone,
         TakeTerm, svcVars
  <2> QED
    BY <2>1, <2>2, <2>3, LoadKept DEF Starts, Closes
<1>4. CASE UNCHANGED vars
  <2>1. UNCHANGED <<children, running, fd, wpc, wsvc, down>>
    BY <1>4 DEF vars, svcVars, workVars
  <2> QED
    BY <2>1 DEF LoadInv, LoadBound, ClosedLoad, RunningLoad, Load, Count, InFlight, Busy, Up,
       NumWorkers, ChildBound
<1> QED
  BY <1>1, <1>2, <1>3, <1>4

LEMMA LoadInit == Init => LoadInv
<1> SUFFICES ASSUME Init PROVE LoadInv
  OBVIOUS
<1>1. \A s \in Services : Count(s) = 0 /\ Cardinality(InFlight(s)) = 0
  BY FS_EmptySet DEF Init, Count, InFlight, Busy
<1> QED
  BY <1>1, ChildBoundTypes DEF Init, LoadInv, ClosedLoad, RunningLoad, LoadBound, Load

\* The children of a service and the connections on their way to become one never exceed
\* ChildBound by more than the workers, through every reload, retry and looping service,
\* when every configured limit is positive.
THEOREM OvershootBounded == Spec => []Overshoot
<1> DEFINE IInv == TypeInv /\ TableInv /\ FreshInv /\ LoadInv
<1>1. Init => IInv
  BY InitType, TableInit, FreshInit, LoadInit
<1>2. IInv /\ [Next]_vars => IInv'
  BY NextType, TableNext, FreshNext, LoadNext
<1>3. IInv => Overshoot
  BY DEF LoadInv, LoadBound, Load, Overshoot, NumWorkers
<1> QED
  BY <1>1, <1>2, <1>3, PTL DEF Spec

-----------------------------------------------------------------------------
(* Who holds a process: a worker between do_fork() and the end of          *)
(* addchild(), se_children, or reapchild().                                *)

Holding(w) == wpc[w] \in {"add", "link"}
Reaping    == mpc \in {"search", "unlink", "free"}

\* The children that workers have started and not yet counted.
HeldInv ==
  \A w \in Workers :
    /\ Holding(w) =>
         /\ life[wpid[w]] = "running" /\ owner[wpid[w]] = wsvc[w]
         /\ proctable[wpid[w]] = IF wpc[w] = "add" THEN "none" ELSE "hooked"
         /\ \A s \in Services : wpid[w] \notin children[s]
    /\ ~Holding(w) => wpid[w] = NoPid
    /\ \A v \in Workers \ {w} : wpid[v] = wpid[w] => wpid[w] = NoPid

\* The child that reapchild() is working on.
ReapedInv ==
  /\ Reaping => life[mpid] = "free"
  /\ ~Reaping => mpid = NoPid
  /\ mpc = "free" => \A s \in Services : mpid \notin children[s]

\* The children that are counted.
CountedInv ==
  \A s \in Services : \A p \in children[s] :
    proctable[p] = "hooked" /\ owner[p] = s /\ (life[p] # "free" \/ mpid = p)

ProcInv == HeldInv /\ ReapedInv /\ CountedInv

\* A child outlives its addchild(), and a pid that inetd still lists is not given out again.
Waited == {"quick child", "pid reuse"} \cap Hazards = {}

\* A step that starts, ends, counts and reaps no process.
SameThreads ==
  /\ \A w \in Workers :
       (wpc'[w] = wpc[w] /\ wsvc'[w] = wsvc[w]) \/ (~Holding(w) /\ ~Holding(w)')
  /\ Reaping' <=> Reaping
  /\ mpc' = "free" => mpc = "free"

LEMMA ProcKept ==
  ASSUME ProcInv, SameThreads,
         UNCHANGED <<life, owner, proctable, children, wpid, mpid>>
  PROVE  ProcInv'
<1>1. HeldInv'
  BY DEF ProcInv, HeldInv, SameThreads, Holding
<1>2. ReapedInv' /\ CountedInv'
  BY DEF ProcInv, ReapedInv, CountedInv, SameThreads
<1> QED
  BY <1>1, <1>2 DEF ProcInv

\* close_sep() deletes only procinfos that no worker holds.
LEMMA ProcClosed ==
  ASSUME TypeInv, ProcInv, SameThreads, NEW c \in Services, CloseSep(c),
         UNCHANGED <<life, owner, wpid, mpid>>
  PROVE  ProcInv'
<1>1. \A s \in Services : children'[s] = IF s = c THEN {} ELSE children[s]
  BY DEF CloseSep, TypeInv, TypeOK
<1>2. \A p \in Pids : proctable'[p] = IF p \in children[c] THEN "freed" ELSE proctable[p]
  BY DEF CloseSep
<1>3. HeldInv'
  <2> SUFFICES ASSUME NEW w \in Workers PROVE HeldInv!(w)'
    BY DEF HeldInv
  <2>1. CASE Holding(w)
    <3>1. Holding(w)' /\ wpc'[w] = wpc[w] /\ wsvc'[w] = wsvc[w]
      BY <2>1 DEF SameThreads, Holding
    <3>2. wpid[w] \in Pids /\ wpid[w] \notin children[c]
      BY <2>1 DEF TypeInv, WorkerTypeOK, Holding, ProcInv, HeldInv
    <3> QED
      BY <1>1, <1>2, <2>1, <3>1, <3>2 DEF ProcInv, HeldInv
  <2>2. CASE ~Holding(w)
    <3>1. ~Holding(w)'
      BY <2>2 DEF SameThreads, Holding
    <3> QED
      BY <2>2, <3>1 DEF ProcInv, HeldInv
  <2> QED
    BY <2>1, <2>2
<1>4. ReapedInv'
  BY <1>1 DEF ProcInv, ReapedInv, SameThreads
<1>5. CountedInv'
  <2> SUFFICES ASSUME NEW s \in Services, NEW p \in children'[s]
               PROVE  proctable'[p] = "hooked" /\ owner'[p] = s /\ (life'[p] # "free" \/ mpid' = p)
    BY DEF CountedInv
  <2>1. s # c /\ p \in children[s] /\ p \in Pids
    BY <1>1 DEF TypeInv, TypeOK
  <2>2. p \notin children[c]
    BY <2>1 DEF ProcInv, CountedInv
  <2> QED
    BY <1>2, <2>1, <2>2 DEF ProcInv, CountedInv
<1> QED
  BY <1>3, <1>4, <1>5 DEF ProcInv

\* A worker that holds no process goes back to GetQueuedCompletionStatus().
LEMMA ProcIdle ==
  ASSUME TypeInv, ProcInv, NEW w \in Workers, ~Holding(w), ToIdle(w)
  PROVE  /\ wpid' = wpid
         /\ \A v \in Workers : \/ wpc'[v] = wpc[v] /\ wsvc'[v] = wsvc[v]
                               \/ ~Holding(v) /\ ~Holding(v)'
<1>1. wpid[w] = NoPid
  BY DEF ProcInv, HeldInv
<1> QED
  BY <1>1 DEF ToIdle, Holding, TypeInv, TypeOK

LEMMA ProcFork ==
  ASSUME Waited, TypeInv, ProcInv, NEW w \in Workers, NEW p \in Pids, Fork(w, p)
  PROVE  ProcInv'
<1>1. /\ life[p] = "free" /\ proctable[p] = "none" /\ mpid # p
      /\ \A v \in Workers : wpid[v] # p
      /\ \A s \in Services : p \notin children[s]
  BY DEF Waited, Fork, ProcInv, CountedInv
<1>2. /\ UNCHANGED <<proctable, children, wsvc, mpc, mpid>>
      /\ wpc' = [wpc EXCEPT ![w] = "add"]
      /\ wpid' = [wpid EXCEPT ![w] = p]
      /\ life' = [life EXCEPT ![p] = "running"]
      /\ owner' = [owner EXCEPT ![p] = wsvc[w]]
  BY DEF Fork, svcVars, mainVars
<1>3. HeldInv'
  <2> SUFFICES ASSUME NEW v \in Workers PROVE HeldInv!(v)'
    BY DEF HeldInv
  <2>1. CASE v = w
    BY <1>1, <1>2, <2>1 DEF Holding, ProcInv, HeldInv, TypeInv, TypeOK
  <2>2. CASE v # w
    BY <1>1, <1>2, <2>2 DEF Holding, ProcInv, HeldInv, TypeInv, TypeOK, WorkerTypeOK
  <2> QED
    BY <2>1, <2>2
<1>4. ReapedInv'
  BY <1>1, <1>2 DEF ProcInv, ReapedInv, Reaping, TypeInv, TypeOK, MainTypeOK
<1>5. CountedInv'
  BY <1>1, <1>2 DEF ProcInv, CountedInv, TypeInv, TypeOK
<1> QED
  BY <1>3, <1>4, <1>5 DEF ProcInv

LEMMA ProcAdd ==
  ASSUME TypeInv, ProcInv, NEW w \in Workers, AddProc(w)
  PROVE  ProcInv'
<1>1. PICK p \in Pids : p = wpid[w] /\ proctable[p] = "none"
  BY DEF AddProc, TypeInv, WorkerTypeOK
<1>2. /\ UNCHANGED <<life, owner, children, wsvc, wpid, mpc, mpid>>
      /\ wpc[w] = "add" /\ wpc' = [wpc EXCEPT ![w] = "link"]
      /\ proctable' = [proctable EXCEPT ![p] = "hooked"]
  BY <1>1 DEF AddProc, svcVars, mainVars
<1>3. HeldInv'
  <2> SUFFICES ASSUME NEW v \in Workers PROVE HeldInv!(v)'
    BY DEF HeldInv
  <2>1. CASE v = w
    BY <1>1, <1>2, <2>1 DEF Holding, ProcInv, HeldInv, TypeInv, TypeOK
  <2>2. CASE v # w
    <3>1. Holding(v) => wpid[v] # p
      BY <1>1, <2>2, InetdAssumption DEF InetdAssumption, ProcInv, HeldInv
    <3> QED
      BY <1>1, <1>2, <2>2, <3>1 DEF Holding, ProcInv, HeldInv, TypeInv, TypeOK, WorkerTypeOK
  <2> QED
    BY <2>1, <2>2
<1>4. ReapedInv' /\ CountedInv'
  BY <1>1, <1>2 DEF ProcInv, ReapedInv, Reaping, CountedInv, TypeInv, TypeOK
<1> QED
  BY <1>3, <1>4 DEF ProcInv

LEMMA ProcLink ==
  ASSUME TypeInv, ProcInv, NEW w \in Workers, Link(w)
  PROVE  ProcInv'
<1>1. PICK p \in Pids, s \in Services : p = wpid[w] /\ s = wsvc[w]
  BY DEF Link, TypeInv, WorkerTypeOK
<1>2. /\ UNCHANGED <<life, owner, proctable, mpc, mpid>>
      /\ wpc[w] = "link" /\ ToIdle(w)
      /\ children' = [children EXCEPT ![s] = @ \cup {p}]
  BY <1>1 DEF Link, procVars, mainVars
<1>3. /\ life[p] = "running" /\ owner[p] = s /\ proctable[p] = "hooked"
      /\ \A v \in Workers \ {w} : wpid[v] # p
  BY <1>1, <1>2, InetdAssumption DEF InetdAssumption, Holding, ProcInv, HeldInv
<1>4. HeldInv'
  <2> SUFFICES ASSUME NEW v \in Workers PROVE HeldInv!(v)'
    BY DEF HeldInv
  <2>1. CASE v = w
    BY <1>2, <2>1 DEF ToIdle, Holding, TypeInv, TypeOK
  <2>2. CASE v # w
    <3>1. /\ wpc'[v] = wpc[v] /\ wsvc'[v] = wsvc[v] /\ wpid'[v] = wpid[v]
          /\ wpid'[w] = NoPid
      BY <1>2, <2>2 DEF ToIdle, TypeInv, TypeOK
    <3>2. \A u \in Workers \ {w} : wpid'[u] = wpid[u]
      BY <1>2 DEF ToIdle, TypeInv, TypeOK
    <3>3. \A r \in Services : wpid[v] \notin children[r] => wpid[v] \notin children'[r]
      BY <1>2, <1>3, <2>2 DEF TypeInv, TypeOK
    <3> QED
      BY <1>2, <2>2, <3>1, <3>2, <3>3 DEF Holding, ProcInv, HeldInv
  <2> QED
    BY <2>1, <2>2
<1>5. ReapedInv'
  BY <1>2, <1>3 DEF ProcInv, ReapedInv, Reaping, TypeInv, TypeOK
<1>6. CountedInv'
  BY <1>2, <1>3 DEF ProcInv, CountedInv, TypeInv, TypeOK
<1> QED
  BY <1>4, <1>5, <1>6 DEF ProcInv

LEMMA ProcWorker ==
  ASSUME Waited, TypeInv, ProcInv, NEW w \in Workers, Worker(w)
  PROVE  ProcInv'
<1>0. UNCHANGED <<mpc, mpid>>
  <2>1. UNCHANGED mainVars
    BY DEF Worker, DequeueConnection, DequeueFailure, Refuse, Admit, Looping, LoopingAlarm,
       Fork,
       ForkError, AddProc, AddDuplicate, AddCorrupt, Link, LinkCorrupt, Corrupt
  <2> QED
    BY <2>1 DEF mainVars
<1>1. CASE \E s \in Services : DequeueConnection(w, s) \/ DequeueFailure(w, s)
  <2>1. UNCHANGED <<life, owner, proctable, children, wpid>>
    BY <1>1 DEF DequeueConnection, DequeueFailure, svcVars, procVars, workVars
  <2>2. SameThreads
    BY <1>0, <1>1 DEF DequeueConnection, DequeueFailure, workVars, SameThreads, Holding,
       Reaping,
       TypeInv, TypeOK
  <2> QED
    BY <1>0, <2>1, <2>2, ProcKept
<1>2. CASE Refuse(w) \/ LoopingAlarm(w) \/ ForkError(w)
  <2>1. UNCHANGED <<life, owner, proctable, children>> /\ ~Holding(w) /\ ToIdle(w)
    BY <1>2 DEF Refuse, LoopingAlarm, ForkError, svcVars, procVars, Holding
  <2>2. SameThreads /\ wpid' = wpid
    BY <1>0, <2>1, ProcIdle DEF SameThreads, Reaping
  <2> QED
    BY <1>0, <2>1, <2>2, ProcKept
<1>3. CASE Admit(w)
  <2>1. UNCHANGED <<life, owner, proctable, children, wpid>>
    BY <1>3 DEF Admit, procVars
  <2>2. SameThreads
    BY <1>0, <1>3 DEF Admit, SameThreads, Holding, Reaping, TypeInv, TypeOK
  <2> QED
    BY <1>0, <2>1, <2>2, ProcKept
<1>4. CASE Looping(w)
  <2>1. UNCHANGED <<life, owner, wpid>> /\ wsvc[w] \in Services
    BY <1>4 DEF Looping, TypeInv, WorkerTypeOK
  <2>2. SameThreads
    BY <1>0, <1>4 DEF Looping, SameThreads, Holding, Reaping, TypeInv, TypeOK
  <2> QED
    BY <1>0, <1>4, <2>1, <2>2, ProcClosed DEF Looping
<1>5. CASE AddDuplicate(w)
  BY <1>5 DEF AddDuplicate, ProcInv, HeldInv, Holding
<1>6. CASE AddCorrupt(w) \/ LinkCorrupt(w)
  <2>1. UNCHANGED <<life, owner, proctable, children, wpid, wpc, wsvc>>
    BY <1>6 DEF AddCorrupt, LinkCorrupt, Corrupt, svcVars, procVars, workVars
  <2> QED
    BY <1>0, <2>1, ProcKept DEF SameThreads, Holding, Reaping
<1> QED
  BY <1>1, <1>2, <1>3, <1>4, <1>5, <1>6, ProcFork, ProcAdd, ProcLink DEF Worker

LEMMA ProcEnvironment ==
  ASSUME Waited, TypeInv, ProcInv, Environment \/ Timer PROVE ProcInv'
<1>1. UNCHANGED <<owner, proctable, children, wpc, wsvc, wpid, mpc, mpid>>
  BY DEF Environment, Timer, Connect, ConnectReset, ChildExit, RaiseHup, TimerExpire, TimerFlag,
     svcVars, procVars, workVars, mainVars
<1>2. CASE UNCHANGED life
  BY <1>1, <1>2, ProcKept DEF SameThreads, Holding, Reaping
<1>3. ASSUME NEW p \in Pids, ChildExit(p) PROVE ProcInv'
  <2>1. /\ life[p] = "running" /\ life' = [life EXCEPT ![p] = "exited"]
        /\ \A w \in Workers : wpid[w] # p
    BY <1>3 DEF ChildExit, Waited
  <2>2. HeldInv'
    BY <1>1, <2>1 DEF ProcInv, HeldInv, Holding, TypeInv, TypeOK
  <2>3. ReapedInv' /\ CountedInv'
    BY <1>1, <2>1 DEF ProcInv, ReapedInv, Reaping, CountedInv, TypeInv, TypeOK
  <2> QED
    BY <2>2, <2>3 DEF ProcInv
<1> QED
  BY <1>2, <1>3 DEF Environment, Timer, Connect, ConnectReset, RaiseHup, TimerExpire, TimerFlag,
     procVars

\* wait() hands a process to reapchild(), which uncounts it before it forgets it.
LEMMA ProcReap ==
  ASSUME TypeInv, ProcInv, Reap PROVE ProcInv'
<1>0. UNCHANGED <<wpc, wsvc, wpid, owner>>
  BY DEF Reap, TakeChld, WaitNone, WaitChild, SearchMiss, SearchHit, SearchCorrupt, Unlink,
     UnlinkCorrupt, FreeProc, FreeCorrupt, Corrupt, procVars, workVars
<1>1. CASE TakeChld \/ WaitNone \/ SearchCorrupt \/ UnlinkCorrupt \/ FreeCorrupt
  <2>1. /\ UNCHANGED <<life, owner, proctable, children, mpid>>
        /\ mpc' = mpc \/ (mpc \in {"select", "reap"} /\ mpc' \in {"select", "reap"})
    BY <1>1 DEF TakeChld, TakeSignal, WaitNone, SearchCorrupt, UnlinkCorrupt, FreeCorrupt,
       Corrupt, svcVars, procVars, mainVars
  <2> QED
    BY <1>0, <2>1, ProcKept DEF SameThreads, Holding, Reaping
<1>2. ASSUME NEW p \in Pids, WaitChild(p) PROVE ProcInv'
  <2>1. /\ UNCHANGED <<proctable, children>>
        /\ life[p] = "exited" /\ life' = [life EXCEPT ![p] = "free"]
        /\ mpc = "reap" /\ mpc' = "search" /\ mpid' = p
    BY <1>2 DEF WaitChild, svcVars
  <2>2. HeldInv'
    BY <1>0, <2>1 DEF ProcInv, HeldInv, Holding, TypeInv, TypeOK
  <2>3. mpid = NoPid
    BY <2>1 DEF ProcInv, ReapedInv, Reaping
  <2>4. ReapedInv'
    BY <2>1 DEF ReapedInv, Reaping, TypeInv, TypeOK
  <2>5. CountedInv'
    BY <1>0, <2>1, <2>3, InetdAssumption DEF InetdAssumption, ProcInv, CountedInv, TypeInv,
       TypeOK
  <2> QED
    BY <2>2, <2>4, <2>5 DEF ProcInv
<1>3. CASE SearchMiss
  <2>1. /\ UNCHANGED <<life, proctable, children>>
        /\ mpc = "search" /\ proctable[mpid] = "none"
        /\ mpc' = "reap" /\ mpid' = NoPid
    BY <1>3 DEF SearchMiss, svcVars, procVars
  <2>2. HeldInv'
    BY <1>0, <2>1 DEF ProcInv, HeldInv, Holding
  <2>3. ReapedInv' /\ CountedInv'
    BY <1>0, <2>1 DEF ProcInv, ReapedInv, Reaping, CountedInv
  <2> QED
    BY <2>2, <2>3 DEF ProcInv
<1>4. CASE SearchHit
  <2>1. /\ UNCHANGED <<life, proctable, children, mpid>>
        /\ mpc = "search" /\ mpc' \in {"unlink", "free"}
        /\ mpc' = "free" => ~Linked(mpid)
    BY <1>4 DEF SearchHit, svcVars, procVars
  <2>2. HeldInv'
    BY <1>0, <2>1 DEF ProcInv, HeldInv, Holding
  <2>3. ReapedInv' /\ CountedInv'
    BY <1>0, <2>1 DEF ProcInv, ReapedInv, Reaping, CountedInv, Linked
  <2> QED
    BY <2>2, <2>3 DEF ProcInv
<1>5. CASE Unlink
  <2>1. PICK s \in Services : Unlink!(s)
    BY <1>5 DEF Unlink
  <2>2. /\ UNCHANGED <<life, proctable, mpid>>
        /\ mpc = "unlink" /\ mpc' = "free" /\ mpid \in children[s]
        /\ children' = [children EXCEPT ![s] = @ \ {mpid}]
    BY <2>1 DEF procVars
  <2>3. HeldInv'
    BY <1>0, <2>2 DEF ProcInv, HeldInv, Holding, TypeInv, TypeOK
  <2>4. ReapedInv'
    BY <1>0, <2>2 DEF ProcInv, ReapedInv, Reaping, CountedInv, TypeInv, TypeOK
  <2>5. CountedInv'
    BY <1>0, <2>2 DEF ProcInv, CountedInv, TypeInv, TypeOK
  <2> QED
    BY <2>3, <2>4, <2>5 DEF ProcInv
<1>6. CASE FreeProc
  <2>1. /\ UNCHANGED life /\ mpid \in Pids
        /\ mpc = "free" /\ mpc' = "reap" /\ mpid' = NoPid
        /\ children' = [s \in Services |-> children[s] \ {mpid}]
        /\ proctable' = [proctable EXCEPT ![mpid] = "none"]
    BY <1>6 DEF FreeProc, TypeInv, MainTypeOK
  <2>2. HeldInv'
    <3>1. \A w \in Workers : Holding(w) => wpid[w] # mpid
      BY <2>1 DEF ProcInv, HeldInv, ReapedInv, Reaping
    <3> QED
      BY <1>0, <2>1, <3>1 DEF ProcInv, HeldInv, Holding, TypeInv, TypeOK
  <2>3. ReapedInv' /\ CountedInv'
    BY <1>0, <2>1 DEF ProcInv, ReapedInv, Reaping, CountedInv, TypeInv, TypeOK
  <2> QED
    BY <2>2, <2>3 DEF ProcInv
<1> QED
  BY <1>1, <1>2, <1>3, <1>4, <1>5, <1>6 DEF Reap

LEMMA ProcNext == ASSUME Waited, TypeInv, ProcInv, [Next]_vars PROVE ProcInv'
<1>1. CASE Environment \/ Timer
  BY <1>1, ProcEnvironment
<1>2. CASE \E w \in Workers : Worker(w)
  BY <1>2, ProcWorker
<1>3. CASE Reap
  BY <1>3, ProcReap
<1>4. CASE TakeAlrm \/ RetryDone \/ TakeTerm \/ Config \/ \E s \in Services : Retry(s)
  <2>1. UNCHANGED <<life, owner, wpc, wsvc, wpid, mpid>> /\ ~Reaping /\ ~Reaping'
    BY <1>4 DEF TakeAlrm, TakeSignal, RetryDone, TakeTerm, Retry, Config, TakeHup,
       TakeHupNoFile,
       ConfigAbort, ConfigOld, ConfigNew, ConfigPurge, ConfigAdjust, ConfigReset, ConfigKeep,
       ConfigEnable, ConfigSwap, ConfigDone, Reaping, procVars, workVars, mainVars
  <2>2. SameThreads
    BY <2>1 DEF SameThreads, Holding, Reaping
  <2>3. CASE ConfigReset \/ \E s \in Services : ConfigPurge(s)
    <3>1. PICK c \in Services : CloseSep(c)
      BY <2>3 DEF ConfigReset, ConfigPurge, TypeInv, MainTypeOK
    <3> QED
      BY <2>1, <2>2, <3>1, ProcClosed
  <2>4. CASE UNCHANGED <<proctable, children>>
    BY <2>1, <2>2, <2>4, ProcKept
  <2> QED
    BY <1>4, <2>3, <2>4 DEF TakeAlrm, RetryDone, TakeTerm, Retry, Config, TakeHup,
       TakeHupNoFile, ConfigAbort, ConfigOld, ConfigNew, ConfigAdjust, ConfigKeep,
       ConfigEnable, ConfigSwap, ConfigDone, svcVars, procVars
<1>5. CASE UNCHANGED vars
  BY <1>5, ProcKept DEF vars, svcVars, procVars, workVars, mainVars, SameThreads, Holding,
     Reaping
<1> QED
  BY <1>1, <1>2, <1>3, <1>4, <1>5 DEF Next, Main

LEMMA ProcInit == Init => ProcInv
BY DEF Init, ProcInv, HeldInv, ReapedInv, CountedInv, Holding, Reaping

\* Where no exit overtakes addchild() and no listed pid is given out again, a worker and the
\* main thread never work on one process, and each counts and uncounts it once.
THEOREM ProcSafety == ASSUME Waited PROVE Spec => []ProcInv
<1>1. Init => TypeInv /\ ProcInv
  BY InitType, ProcInit
<1>2. (TypeInv /\ ProcInv) /\ [Next]_vars => (TypeInv /\ ProcInv)'
  BY NextType, ProcNext
<1> QED
  BY <1>1, <1>2, PTL DEF Spec

\* Nothing is counted in se_children after reapchild() has taken it off, nor under a service
\* that has not started it: at every moment the count is of processes still to be reaped.
THEOREM PhantomFree == ASSUME Waited PROVE Spec => []NoPhantomChild
<1>1. TypeInv /\ ProcInv => NoPhantomChild
  BY DEF ProcInv, CountedInv, NoPhantomChild
<1> QED
  BY <1>1, ProcSafety, TypeSafety, PTL

-----------------------------------------------------------------------------
(* No service is left stopped with room for a child.  The main thread      *)
(* enables where reapchild() uncounts; free_proc(), which uncounts too and *)
(* enables nothing, finds nothing left to uncount (ReapedInv).             *)

Stopped(s) == Up /\ enabled[s] /\ fd[s] /\ ~running[s] /\ ~Reconfiguring(s)

\* s was stopped before the step as well, with the same limit and no fewer children.
StaysStopped(s) == Stopped(s) /\ maxchild'[s] = maxchild[s] /\ children[s] \subseteq children'[s]

LEMMA StoppedFull ==
  ASSUME TypeInv, TypeInv', NoStuckService, NEW s \in Services, StaysStopped(s)
  PROVE  Exceeds(s, Count(s))'
<1>1. Exceeds(s, Count(s))
  BY DEF NoStuckService, StaysStopped, Stopped
<1>2. Cardinality(children[s]) <= Cardinality(children'[s])
  <2>1. IsFiniteSet(children'[s])
    BY InetdAssumption, FS_Subset DEF InetdAssumption, TypeInv, TypeOK
  <2> QED
    BY <2>1, FS_Subset DEF StaysStopped
<1>3. /\ Cardinality(children[s]) \in Nat /\ Cardinality(children'[s]) \in Nat
      /\ maxchild[s] \in Nat
  <2>1. IsFiniteSet(children[s]) /\ IsFiniteSet(children'[s])
    BY InetdAssumption, FS_Subset DEF InetdAssumption, TypeInv, TypeOK
  <2>2. maxchild[s] \in 0 .. MaxLimit /\ MaxLimit \in Nat
    BY InetdAssumption DEF InetdAssumption, TypeInv, TypeOK
  <2> QED
    BY <2>1, <2>2, FS_CardinalityType
<1> QED
  BY <1>1, <1>2, <1>3 DEF Exceeds, Count, StaysStopped

LEMMA StuckKept ==
  ASSUME TypeInv, TypeInv', NoStuckService,
         \A s \in Services : Stopped(s)' => StaysStopped(s) \/ Exceeds(s, Count(s))'
  PROVE  NoStuckService'
BY StoppedFull DEF NoStuckService, Stopped

\* A step that leaves the service table and the main thread's turn of config() alone.
LEMMA StuckSame ==
  ASSUME TypeInv, TypeInv', NoStuckService, Up,
         UNCHANGED <<enabled, running, fd, maxchild, children, msvc>>,
         mpc' \notin {"adjust", "reset", "enable"} => mpc \notin {"adjust", "reset", "enable"}
  PROVE  NoStuckService'
<1>1. \A s \in Services : Reconfiguring(s) => Reconfiguring(s)'
  BY DEF Reconfiguring
<1> QED
  BY <1>1, StuckKept DEF Stopped, StaysStopped

\* close_sep() leaves the others as they are.
LEMMA StuckClosed ==
  ASSUME TypeInv, TypeInv', NoStuckService, Up, NEW c \in Services, CloseSep(c),
         UNCHANGED <<maxchild, msvc>>, \A s \in Services : enabled'[s] => enabled[s],
         mpc' \notin {"adjust", "reset", "enable"} => mpc \notin {"adjust", "reset", "enable"}
  PROVE  NoStuckService'
<1>1. \A s \in Services : Reconfiguring(s) => Reconfiguring(s)'
  BY DEF Reconfiguring
<1>2. ASSUME NEW s \in Services, Stopped(s)' PROVE StaysStopped(s)
  BY <1>1, <1>2 DEF CloseSep, Stopped, StaysStopped, TypeInv, TypeOK
<1> QED
  BY <1>2, StuckKept

LEMMA StuckLink ==
  ASSUME TypeInv, TypeInv', NoStuckService, NEW w \in Workers, Link(w)
  PROVE  NoStuckService'
<1>1. PICK p \in Pids, s \in Services : p = wpid[w] /\ s = wsvc[w]
  BY DEF Link, TypeInv, WorkerTypeOK
<1>2. /\ Up /\ UNCHANGED <<enabled, fd, maxchild, mpc, msvc>>
      /\ children' = [children EXCEPT ![s] = @ \cup {p}]
  BY <1>1 DEF Link, mainVars
<1>3. /\ children'[s] = children[s] \cup {p}
      /\ \A r \in Services : children[r] \subseteq children'[r]
  BY <1>2 DEF TypeInv, TypeOK
<1>4. CASE Exceeds(s, Cardinality(children[s] \cup {p}))
  <2>1. Exceeds(s, Count(s))'
    BY <1>2, <1>3, <1>4 DEF Exceeds, Count
  <2>2. \A r \in Services : r # s => running'[r] = running[r]
    BY <1>1, <1>4 DEF Link, Disable, TypeInv, TypeOK
  <2> QED
    BY <1>2, <1>3, <2>1, <2>2, StuckKept DEF Stopped, StaysStopped, Reconfiguring
<1>5. CASE ~Exceeds(s, Cardinality(children[s] \cup {p}))
  <2>1. running' = running
    BY <1>1, <1>5 DEF Link
  <2> QED
    BY <1>2, <1>3, <2>1, StuckKept DEF Stopped, StaysStopped, Reconfiguring
<1> QED
  BY <1>4, <1>5

LEMMA StuckReap ==
  ASSUME TypeInv, TypeInv', ReapedInv, NoStuckService, Reap
  PROVE  NoStuckService'
<1>1. CASE Unlink
  <2>1. PICK s \in Services : Unlink!(s)
    BY <1>1 DEF Unlink
  <2>2. /\ Up /\ mpc = "unlink" /\ mpc' = "free"
        /\ UNCHANGED <<enabled, fd, maxchild, msvc>>
        /\ children'[s] = children[s] \ {mpid}
        /\ \A r \in Services : r # s => children'[r] = children[r]
    BY <2>1 DEF TypeInv, TypeOK
  <2>3. CASE Exceeds(s, Cardinality(children[s] \ {mpid}))
    <3>1. Exceeds(s, Count(s))' /\ running' = running
      BY <2>1, <2>2, <2>3 DEF Exceeds, Count
    <3> QED
      BY <2>2, <3>1, StuckKept DEF Stopped, StaysStopped, Reconfiguring
  <2>4. CASE ~Exceeds(s, Cardinality(children[s] \ {mpid}))
    <3>1. running'[s] /\ \A r \in Services : r # s => running'[r] = running[r]
      BY <2>1, <2>4 DEF Enable, TypeInv, TypeOK
    <3> QED
      BY <2>2, <3>1, StuckKept DEF Stopped, StaysStopped, Reconfiguring
  <2> QED
    BY <2>3, <2>4
<1>2. CASE FreeProc
  <2>1. \A s \in Services : children'[s] = children[s]
    BY <1>2 DEF FreeProc, ReapedInv
  <2>2. Up /\ mpc = "free" /\ mpc' = "reap" /\ UNCHANGED <<enabled, fd, running, maxchild, msvc>>
    BY <1>2 DEF FreeProc
  <2> QED
    BY <2>1, <2>2, StuckKept DEF Stopped, StaysStopped, Reconfiguring
<1>3. CASE TakeChld \/ WaitNone \/ (\E p \in Pids : WaitChild(p)) \/ SearchMiss \/ SearchHit
  BY <1>3, StuckSame DEF TakeChld, TakeSignal, WaitNone, WaitChild, SearchMiss, SearchHit,
     svcVars
<1>4. CASE SearchCorrupt \/ UnlinkCorrupt \/ FreeCorrupt
  BY <1>4, StuckSame DEF SearchCorrupt, UnlinkCorrupt, FreeCorrupt, Corrupt, svcVars, mainVars
<1> QED
  BY <1>1, <1>2, <1>3, <1>4 DEF Reap

\* setup() leaves a service without a socket, or starts it.
LEMMA StuckSetup ==
  ASSUME TypeInv, NEW s \in Services, ~fd[s], Setup(s)
  PROVE  /\ fd'[s] => running'[s]
         /\ \A r \in Services : r # s => fd'[r] = fd[r] /\ running'[r] = running[r]
BY DEF Setup, TypeInv, TypeOK

LEMMA StuckConfig ==
  ASSUME TypeInv, TypeInv', NoStuckService, Config
  PROVE  NoStuckService'
<1>1. CASE TakeHup \/ TakeHupNoFile \/ ConfigAbort \/ ConfigKeep \/ ConfigSwap \/ ConfigDone
  BY <1>1, StuckSame DEF TakeHup, TakeHupNoFile, TakeSignal, ConfigAbort, TerminateMain,
     ConfigKeep, ConfigSwap, ConfigDone, svcVars, mainVars
<1>2. ASSUME NEW s \in Services, ConfigOld(s) \/ ConfigNew(s) PROVE NoStuckService'
  <2>1. Up /\ mpc = "config" /\ msvc' = s /\ mpc' \in {"adjust", "enable"} /\ children' = children
    BY <1>2 DEF ConfigOld, ConfigNew
  <2>2. \A r \in Services : r # s => /\ enabled'[r] = enabled[r] /\ running'[r] = running[r]
                                     /\ fd'[r] = fd[r] /\ maxchild'[r] = maxchild[r]
    BY <1>2 DEF ConfigOld, ConfigNew, TypeInv, TypeOK
  <2> QED
    BY <2>1, <2>2, StuckKept DEF Stopped, StaysStopped, Reconfiguring
<1>3. ASSUME NEW s \in Services, ConfigPurge(s) PROVE NoStuckService'
  <2>1. \A r \in Services : enabled'[r] => enabled[r]
    BY <1>3 DEF ConfigPurge, TypeInv, TypeOK
  <2> QED
    BY <1>3, <2>1, StuckClosed DEF ConfigPurge
<1>4. CASE ConfigAdjust
  <2>1. /\ Up /\ msvc \in Services /\ mpc = "adjust" /\ mpc' = "reset"
        /\ UNCHANGED <<enabled, fd, maxchild, children, msvc>>
    BY <1>4 DEF ConfigAdjust, TypeInv, MainTypeOK
  <2>2. \A r \in Services : r # msvc => running'[r] = running[r]
    BY <1>4, <2>1 DEF ConfigAdjust, Disable, TypeInv, TypeOK
  <2> QED
    BY <2>1, <2>2, StuckKept DEF Stopped, StaysStopped, Reconfiguring
<1>5. CASE ConfigReset
  BY <1>5, StuckClosed DEF ConfigReset, TypeInv, MainTypeOK
<1>6. CASE ConfigEnable
  <2>1. /\ Up /\ msvc \in Services /\ mpc = "enable"
        /\ UNCHANGED <<enabled, maxchild, children>>
    BY <1>6 DEF ConfigEnable, TypeInv, MainTypeOK
  <2>2. CASE enabled[msvc] /\ ~fd[msvc]
    BY <1>6, <2>1, <2>2, StuckSetup, StuckKept
    DEF ConfigEnable, Stopped, StaysStopped, Reconfiguring
  <2>3. CASE fd[msvc] /\ enabled[msvc] /\ ~Exceeds(msvc, Count(msvc))
    <3>1. /\ fd' = fd /\ running'[msvc]
          /\ \A r \in Services : r # msvc => running'[r] = running[r]
      BY <1>6, <2>1, <2>3 DEF ConfigEnable, Enable, TypeInv, TypeOK
    <3> QED
      BY <2>1, <3>1, StuckKept DEF Stopped, StaysStopped, Reconfiguring
  <2>4. CASE ~enabled[msvc] \/ (Exceeds(msvc, Count(msvc)) /\ fd[msvc])
    <3>1. UNCHANGED <<fd, running>>
      BY <1>6, <2>1, <2>4 DEF ConfigEnable, Exceeds
    <3>2. \A s \in Services : s = msvc /\ enabled[s] => Exceeds(s, Count(s))'
      BY <2>1, <2>4 DEF Exceeds, Count
    <3> QED
      BY <2>1, <3>1, <3>2, StuckKept DEF Stopped, StaysStopped, Reconfiguring
  <2> QED
    BY <2>2, <2>3, <2>4
<1> QED
  BY <1>1, <1>2, <1>3, <1>4, <1>5, <1>6 DEF Config

LEMMA StuckNext ==
  ASSUME TypeInv, TypeInv', ReapedInv, NoStuckService, [Next]_vars PROVE NoStuckService'
<1>1. CASE Environment \/ Timer
  BY <1>1, StuckSame DEF Environment, Timer, Connect, ConnectReset, ChildExit, RaiseHup,
     TimerExpire, TimerFlag, svcVars, mainVars
<1>2. ASSUME NEW w \in Workers, Worker(w) PROVE NoStuckService'
  <2>1. Up /\ UNCHANGED <<mpc, msvc>>
    BY <1>2, WorkerLeaves
  <2>2. CASE Looping(w)
    BY <2>1, <2>2, StuckClosed DEF Looping, TypeInv, WorkerTypeOK
  <2>3. CASE Link(w)
    BY <2>3, StuckLink
  <2>4. CASE UNCHANGED <<enabled, running, fd, maxchild, children>>
    BY <2>1, <2>4, StuckSame
  <2> QED
    BY <1>2, <2>2, <2>3, <2>4 DEF Worker, DequeueConnection, DequeueFailure, Refuse, Admit,
       LoopingAlarm, Fork, ForkError, AddProc, AddDuplicate, AddCorrupt, LinkCorrupt, Corrupt,
       svcVars
<1>3. CASE Reap
  BY <1>3, StuckReap
<1>4. CASE TakeAlrm \/ RetryDone \/ TakeTerm
  BY <1>4, StuckSame DEF TakeAlrm, TakeSignal, RetryDone, TakeTerm, svcVars, mainVars
<1>5. ASSUME NEW s \in Services, Retry(s) PROVE NoStuckService'
  <2>1. Up /\ mpc = "retry" /\ UNCHANGED <<enabled, maxchild, children, msvc, mpc>>
    BY <1>5 DEF Retry
  <2>2. CASE enabled[s] /\ ~fd[s]
    BY <1>5, <2>1, <2>2, StuckSetup, StuckKept DEF Retry, Stopped, StaysStopped, Reconfiguring
  <2>3. CASE ~(enabled[s] /\ ~fd[s])
    BY <1>5, <2>1, <2>3, StuckSame DEF Retry
  <2> QED
    BY <2>2, <2>3
<1>6. CASE Config
  BY <1>6, StuckConfig
<1>7. CASE UNCHANGED vars
  BY <1>7, StuckKept DEF vars, svcVars, mainVars, Up, Stopped, StaysStopped, Reconfiguring
<1> QED
  BY <1>1, <1>2, <1>3, <1>4, <1>5, <1>6, <1>7 DEF Next, Main

\* No interleaving of addchild(), reapchild(), close_sep(), config() and retry() leaves a
\* configured service stopped while it has room for another child.
THEOREM NeverStuck == ASSUME Waited PROVE Spec => []NoStuckService
<1> DEFINE IInv == TypeInv /\ ProcInv /\ NoStuckService
<1>1. Init => IInv
  BY InitType, ProcInit DEF Init, NoStuckService
<1>2. IInv /\ [Next]_vars => IInv'
  BY NextType, ProcNext, StuckNext DEF ProcInv
<1>3. IInv => NoStuckService
  OBVIOUS
<1> QED
  BY <1>1, <1>2, <1>3, PTL DEF Spec

-----------------------------------------------------------------------------
(* A running service listens.                                              *)

\* AcceptEx is granted to a listening socket.
Accepted == {"accept fails", "unsigned socket"} \cap Hazards = {}

Queued(s) == accepts[s] + ready[s] + failed[s]

LEMMA CappedPositive == ASSUME NEW n \in Nat PROVE Capped(n + 1) > 0 /\ Capped(n + 1) \in Nat
BY InetdAssumption DEF InetdAssumption, Capped

\* A step after which whatever runs has run before with as much queued, or has been given an
\* AcceptEx.
LEMMA ListenKept ==
  ASSUME TypeInv, TypeInv', RunningIsListening, Up,
         Up' => \A s \in Services :
           running'[s] => \/ running[s] /\ Queued(s)' = Queued(s)
                          \/ accepts'[s] > 0
  PROVE  RunningIsListening'
<1>1. \A s \in Services : accepts'[s] \in Nat /\ ready'[s] \in Nat /\ failed'[s] \in Nat
  BY DEF TypeInv, TypeOK
<1> QED
  BY <1>1 DEF RunningIsListening, Queued

LEMMA CancelStops ==
  ASSUME TypeInv, NEW s \in Services, CancelAccepts(s) \/ UNCHANGED netVars
  PROVE  \A r \in Services : r # s => Queued(r)' = Queued(r)
BY DEF CancelAccepts, Queued, netVars, TypeInv, TypeOK

\* enable() and setup() leave the daemon up only with an AcceptEx posted.
LEMMA StartListens ==
  ASSUME TypeInv, Accepted, NEW s \in Services, Up', Enable(s) \/ Setup(s)
  PROVE  \A r \in Services : /\ r # s => Queued(r)' = Queued(r) /\ running'[r] = running[r]
                             /\ running'[s] => \/ running[s] /\ Queued(s)' = Queued(s)
                                               \/ accepts'[s] > 0
<1>1. Capped(accepts[s] + 1) > 0
  BY CappedPositive DEF TypeInv, TypeOK
<1>2. \/ /\ accepts' = [accepts EXCEPT ![s] = Capped(@ + 1)]
         /\ running' = [running EXCEPT ![s] = TRUE]
         /\ UNCHANGED <<ready, failed>>
      \/ UNCHANGED <<running, netVars>>
  BY DEF Enable, Setup, AcceptTaken, AcceptRefused, Accepted, TerminateMain, Up
<1>3. CASE UNCHANGED <<running, netVars>>
  BY <1>3 DEF netVars, Queued
<1>4. CASE UNCHANGED <<ready, failed>> /\ accepts' = [accepts EXCEPT ![s] = Capped(@ + 1)]
             /\ running' = [running EXCEPT ![s] = TRUE]
  BY <1>1, <1>4 DEF Queued, TypeInv, TypeOK
<1> QED
  BY <1>2, <1>3, <1>4

LEMMA ListenWorker ==
  ASSUME TypeInv, TypeInv', Accepted, RunningIsListening, NEW w \in Workers, Worker(w)
  PROVE  RunningIsListening'
<1>0. Up
  BY WorkerLeaves
<1>1. ASSUME NEW s \in Services, DequeueConnection(w, s) \/ DequeueFailure(w, s)
      PROVE  RunningIsListening'
  <2>1. running' = running /\ Rearm(s) /\ \A r \in Services : r # s => Queued(r)' = Queued(r)
    BY <1>1 DEF DequeueConnection, DequeueFailure, Rearm, Queued, svcVars, TypeInv, TypeOK
  <2>2. running[s] => accepts'[s] > 0
    <3>1. Capped(accepts[s] + 1) > 0
      BY CappedPositive DEF TypeInv, TypeOK
    <3>2. running[s] => accepts' = [accepts EXCEPT ![s] = Capped(@ + 1)]
      BY <2>1 DEF Rearm, AcceptRefused, AcceptTaken, Accepted
    <3> QED
      BY <3>1, <3>2 DEF TypeInv, TypeOK
  <2>3. \A r \in Services : running'[r] => \/ running[r] /\ Queued(r)' = Queued(r)
                                           \/ accepts'[r] > 0
    BY <2>1, <2>2
  <2> QED
    BY <1>0, <2>3, ListenKept
<1>2. CASE Looping(w)
  <2>1. \A r \in Services : running'[r] => running[r] /\ Queued(r)' = Queued(r)
    BY <1>2, CancelStops DEF Looping, CloseSep, TypeInv, TypeOK, WorkerTypeOK
  <2> QED
    BY <1>0, <2>1, ListenKept
<1>3. CASE Link(w)
  <2>1. \A r \in Services : running'[r] => running[r] /\ Queued(r)' = Queued(r)
    BY <1>3, CancelStops DEF Link, Disable, netVars, Queued, TypeInv, TypeOK, WorkerTypeOK
  <2> QED
    BY <1>0, <2>1, ListenKept
<1>4. CASE UNCHANGED <<running, netVars>>
  BY <1>0, <1>4, ListenKept DEF netVars, Queued
<1> QED
  BY <1>1, <1>2, <1>3, <1>4 DEF Worker, Refuse, Admit, LoopingAlarm, Fork, ForkError, AddProc,
     AddDuplicate, AddCorrupt, LinkCorrupt, Corrupt, svcVars

LEMMA ListenConfig ==
  ASSUME TypeInv, TypeInv', Accepted, RunningIsListening, Config
  PROVE  RunningIsListening'
<1>0. Up
  BY NextUp DEF Next, Main
<1>1. ASSUME NEW s \in Services, CloseSep(s) PROVE RunningIsListening'
  <2>1. \A r \in Services : running'[r] => running[r] /\ Queued(r)' = Queued(r)
    BY <1>1, CancelStops DEF CloseSep, TypeInv, TypeOK
  <2> QED
    BY <1>0, <2>1, ListenKept
<1>2. CASE ConfigAdjust
  <2>1. \A r \in Services : running'[r] => running[r] /\ Queued(r)' = Queued(r)
    BY <1>2, CancelStops DEF ConfigAdjust, Disable, netVars, Queued, TypeInv, TypeOK, MainTypeOK
  <2> QED
    BY <1>0, <2>1, ListenKept
<1>3. ASSUME NEW s \in Services, ConfigNew(s) PROVE RunningIsListening'
  <2>1. \A r \in Services : running'[r] => running[r] /\ Queued(r)' = Queued(r)
    BY <1>3 DEF ConfigNew, netVars, Queued, TypeInv, TypeOK
  <2> QED
    BY <1>0, <2>1, ListenKept
<1>4. CASE ConfigEnable
  <2>1. msvc \in Services
    BY <1>4 DEF ConfigEnable, TypeInv, MainTypeOK
  <2>2. CASE Enable(msvc) \/ Setup(msvc)
    BY <1>0, <2>1, <2>2, StartListens, ListenKept
  <2>3. CASE UNCHANGED <<running, netVars>>
    BY <1>0, <2>3, ListenKept DEF netVars, Queued
  <2> QED
    BY <1>4, <2>2, <2>3 DEF ConfigEnable
<1>5. CASE UNCHANGED <<running, netVars>>
  BY <1>0, <1>5, ListenKept DEF netVars, Queued
<1> QED
  BY <1>1, <1>2, <1>3, <1>4, <1>5 DEF Config, TakeHup, TakeHupNoFile, ConfigAbort, ConfigOld,
     ConfigPurge, ConfigReset, ConfigKeep, ConfigSwap, ConfigDone, svcVars, TypeInv, MainTypeOK

LEMMA ListenNext ==
  ASSUME TypeInv, TypeInv', Accepted, RunningIsListening, [Next]_vars
  PROVE  RunningIsListening'
<1>1. ASSUME NEW s \in Services, Connect(s) \/ ConnectReset(s) PROVE RunningIsListening'
  <2>1. Up /\ running' = running /\ \A r \in Services : Queued(r)' = Queued(r)
    <3>1. CASE Connect(s)
      BY <3>1 DEF Connect, Queued, svcVars, TypeInv, TypeOK
    <3>2. CASE ConnectReset(s)
      BY <3>2 DEF ConnectReset, Queued, svcVars, TypeInv, TypeOK
    <3> QED
      BY <1>1, <3>1, <3>2
  <2> QED
    BY <2>1, ListenKept
<1>2. CASE Unlink
  <2>1. PICK s \in Services : Enable(s) \/ UNCHANGED <<running, netVars>>
    BY <1>2 DEF Unlink
  <2>2. Up
    BY <1>2 DEF Unlink
  <2>3. CASE Enable(s)
    BY <2>2, <2>3, StartListens, ListenKept
  <2>4. CASE UNCHANGED <<running, netVars>>
    BY <2>2, <2>4, ListenKept DEF netVars, Queued
  <2> QED
    BY <2>1, <2>3, <2>4
<1>3. ASSUME NEW s \in Services, Retry(s) PROVE RunningIsListening'
  <2>1. Up /\ (Setup(s) \/ UNCHANGED <<running, netVars>>)
    BY <1>3 DEF Retry
  <2>2. CASE Setup(s)
    BY <2>1, <2>2, StartListens, ListenKept
  <2>3. CASE UNCHANGED <<running, netVars>>
    BY <2>1, <2>3, ListenKept DEF netVars, Queued
  <2> QED
    BY <2>1, <2>2, <2>3
<1>4. CASE Config
  BY <1>4, ListenConfig
<1>5. ASSUME NEW w \in Workers, Worker(w) PROVE RunningIsListening'
  BY <1>5, ListenWorker
<1>6. CASE Next /\ UNCHANGED <<running, netVars>>
  BY <1>6, NextUp, ListenKept DEF netVars, Queued
<1>7. CASE UNCHANGED vars
  BY <1>7 DEF vars, svcVars, netVars, Up, RunningIsListening
<1> QED
  BY <1>1, <1>2, <1>3, <1>4, <1>5, <1>6, <1>7 DEF Next, Main, Environment, Timer, ChildExit,
     RaiseHup, TimerExpire, TimerFlag, Reap, TakeChld, WaitNone, WaitChild, SearchMiss, SearchHit,
     SearchCorrupt, UnlinkCorrupt, FreeProc, FreeCorrupt, Corrupt, TakeAlrm, RetryDone, TakeTerm,
     svcVars

\* A running service has an AcceptEx posted, or a completion queued whose worker posts the
\* next one: async_accept(), enable() and setup() never leave it deaf.
THEOREM Listening == ASSUME Accepted PROVE Spec => []RunningIsListening
<1> DEFINE IInv == TypeInv /\ RunningIsListening
<1>1. Init => IInv
  BY InitType DEF Init, RunningIsListening
<1>2. IInv /\ [Next]_vars => IInv'
  BY NextType, ListenNext
<1>3. IInv => RunningIsListening
  OBVIOUS
<1> QED
  BY <1>1, <1>2, <1>3, PTL DEF Spec

\* The accounting of children through every reload, retry and looping service: the limit's
\* overshoot is bounded, no service is stuck or deaf, and no dead child is counted.
THEOREM AccountingKept == ASSUME Waited, Accepted PROVE Spec => []Accounting
<1>1. Overshoot /\ NoStuckService /\ NoPhantomChild /\ RunningIsListening => Accounting
  BY DEF Accounting
<1> QED
  BY <1>1, OvershootBounded, NeverStuck, PhantomFree, Listening, PTL

-----------------------------------------------------------------------------
(* A program that is not reloaded and does not look for looping services   *)
(* never closes one (close_sep()).                                         *)

Lasting == TooMany = 0 /\ "reload" \notin Hazards

\* config() runs once, from an empty table.
StartInv ==
  /\ mpc \notin {"adjust", "reset"}
  /\ Configuring => inTable = {}
  /\ mpc = "purge" => todo = {}
  /\ "HUP" \notin signals

LEMMA NeverClosed ==
  ASSUME Lasting, StartInv
  PROVE  /\ \A w \in Workers : ~Looping(w)
         /\ \A s \in Services : ~ConfigPurge(s) /\ ~ConfigOld(s)
         /\ ~ConfigAdjust /\ ~ConfigReset /\ ~ConfigKeep /\ ~RaiseHup /\ ~TakeHup
<1>1. \A w \in Workers : ~Looping(w)
  BY DEF Lasting, Looping
<1>2. \A s \in Services : ~ConfigPurge(s) /\ ~ConfigOld(s)
  BY DEF StartInv, ConfigPurge, ConfigOld, Configuring
<1>3. ~ConfigAdjust /\ ~ConfigReset /\ ~ConfigKeep
  BY DEF StartInv, ConfigAdjust, ConfigReset, ConfigKeep
<1>4. ~RaiseHup /\ ~TakeHup
  BY DEF Lasting, StartInv, RaiseHup, TakeHup, TakeSignal
<1> QED
  BY <1>1, <1>2, <1>3, <1>4

LEMMA FlagOther ==
  ASSUME NEW sig \in {"CHLD", "ALRM", "TERM"}, "HUP" \notin signals, Flag(sig)
  PROVE  "HUP" \notin signals'
BY DEF Flag

LEMMA StartNext == ASSUME Lasting, StartInv, [Next]_vars PROVE StartInv'
<1>1. CASE Environment \/ Timer
  <2>1. UNCHANGED <<inTable, mpc, todo>>
    BY <1>1 DEF Environment, Timer, Connect, ConnectReset, ChildExit, RaiseHup, TimerExpire,
       TimerFlag, svcVars, mainVars
  <2>2. "HUP" \notin signals'
    BY <1>1, NeverClosed, FlagOther DEF StartInv, Environment, Timer, Connect, ConnectReset,
       ChildExit, TimerExpire, TimerFlag, sigVars
  <2> QED
    BY <2>1, <2>2 DEF StartInv, Configuring
<1>2. ASSUME NEW w \in Workers, Worker(w) PROVE StartInv'
  <2>1. UNCHANGED <<inTable, mpc, todo>>
    BY <1>2, WorkerLeaves
  <2>2. "HUP" \notin signals'
    BY <1>2, FlagOther DEF StartInv, Worker, DequeueConnection, DequeueFailure, Refuse, Admit,
       Looping, LoopingAlarm, Fork, ForkError, AddProc, AddDuplicate, AddCorrupt, Link, LinkCorrupt,
       Corrupt, sigVars
  <2> QED
    BY <2>1, <2>2 DEF StartInv, Configuring
<1>3. CASE Reap
  <2>1. "HUP" \notin signals' /\ UNCHANGED inTable
    BY <1>3 DEF StartInv, Reap, TakeChld, TakeSignal, WaitNone, WaitChild, SearchMiss,
       SearchHit,
       SearchCorrupt, Unlink, UnlinkCorrupt, FreeProc, FreeCorrupt, Corrupt, svcVars, sigVars
  <2>2. mpc' \in {"select", "reap", "search", "unlink", "free"}
    BY <1>3 DEF Reap, TakeChld, WaitNone, WaitChild, SearchMiss, SearchHit,
       SearchCorrupt, Unlink, UnlinkCorrupt, FreeProc, FreeCorrupt, Corrupt, mainVars
  <2> QED
    BY <2>1, <2>2 DEF StartInv, Configuring
<1>4. CASE TakeAlrm \/ RetryDone \/ TakeTerm \/ \E s \in Services : Retry(s)
  BY <1>4 DEF StartInv, TakeAlrm, TakeSignal, RetryDone, TakeTerm, Retry, Configuring, svcVars,
     mainVars, sigVars
<1>5. CASE TakeHupNoFile \/ ConfigAbort \/ ConfigSwap \/ ConfigEnable \/ ConfigDone
  BY <1>5 DEF StartInv, TakeHupNoFile, TakeSignal, ConfigAbort, ConfigSwap, ConfigEnable,
     ConfigDone, Configuring, svcVars, mainVars, sigVars
<1>6. ASSUME NEW s \in Services, ConfigNew(s) PROVE StartInv'
  BY <1>6 DEF StartInv, ConfigNew, Configuring, sigVars
<1>7. CASE UNCHANGED vars
  BY <1>7 DEF vars, svcVars, mainVars, sigVars, StartInv, Configuring
<1> QED
  BY <1>1, <1>2, <1>3, <1>4, <1>5, <1>6, <1>7, NeverClosed DEF Next, Main, Config

LEMMA StartInit == Init => StartInv
BY DEF Init, StartInv, Configuring

\* What a step changes of the service table: it sets up a new entry that has no children and
\* no workers yet, or closes nothing and changes no limit.
LEMMA LastingTable ==
  ASSUME Lasting, TypeInv, StartInv, FreshInv, Next
  PROVE  \/ \E s \in Services :
              /\ ConfigNew(s) /\ children[s] = {} /\ InFlight(s) = {}
              /\ \A r \in Services : r # s => /\ maxchild'[r] = maxchild[r] /\ fd'[r] = fd[r]
                                              /\ running'[r] = running[r]
         \/ maxchild' = maxchild /\ \A r \in Services : fd[r] => fd'[r]
<1>1. ASSUME NEW s \in Services, ConfigNew(s)
      PROVE  /\ children[s] = {} /\ InFlight(s) = {}
             /\ \A r \in Services : r # s => /\ maxchild'[r] = maxchild[r] /\ fd'[r] = fd[r]
                                             /\ running'[r] = running[r]
  BY <1>1 DEF ConfigNew, FreshInv, Configuring, TypeInv, TypeOK
<1>2. ASSUME NEW s \in Services, Setup(s) PROVE \A r \in Services : fd[r] => fd'[r]
  BY <1>2, SetupOpen
<1>3. CASE \E w \in Workers : Worker(w)
  BY <1>3, NeverClosed, ZenonT(40) DEF Worker, DequeueConnection, DequeueFailure, Refuse, Admit,
     LoopingAlarm,
     Fork, ForkError, AddProc, AddDuplicate, AddCorrupt, Link, LinkCorrupt, Corrupt, svcVars
<1>4. CASE Environment \/ Timer \/ Reap
  BY <1>4 DEF Environment, Timer, Connect, ConnectReset, ChildExit, RaiseHup, TimerExpire,
     TimerFlag, Reap, TakeChld, WaitNone, WaitChild, SearchMiss, SearchHit, SearchCorrupt, Unlink,
     UnlinkCorrupt, FreeProc, FreeCorrupt, Corrupt, svcVars
<1>5. CASE TakeAlrm \/ RetryDone \/ TakeTerm \/ \E s \in Services : Retry(s)
  BY <1>2, <1>5 DEF TakeAlrm, RetryDone, TakeTerm, Retry, svcVars
<1>6. CASE Config
  <2>1. CASE \E s \in Services : ConfigNew(s)
    BY <1>1, <2>1
  <2>2. CASE ConfigEnable
    BY <1>2, <2>2 DEF ConfigEnable, TypeInv, MainTypeOK
  <2> QED
    BY <1>6, <2>1, <2>2, NeverClosed DEF Config, TakeHupNoFile, ConfigAbort, ConfigSwap,
       ConfigDone, svcVars
<1> QED
  BY <1>3, <1>4, <1>5, <1>6 DEF Next, Main

\* A service without a socket has no children and no workers: it never had a socket.
ClosedIsEmpty == \A s \in Services : ~fd[s] => children[s] = {} /\ InFlight(s) = {}

LEMMA ClosedNext ==
  ASSUME Lasting, TypeInv, TableInv, StartInv, FreshInv, ClosedIsEmpty, [Next]_vars
  PROVE  ClosedIsEmpty'
<1>1. CASE UNCHANGED vars
  BY <1>1 DEF vars, svcVars, workVars, ClosedIsEmpty, InFlight, Busy
<1>2. CASE Next
  <2> SUFFICES ASSUME NEW s \in Services, ~fd'[s] PROVE children'[s] = {} /\ InFlight(s)' = {}
    BY DEF ClosedIsEmpty
  <2>1. children[s] = {} /\ InFlight(s) = {}
    BY <1>2, LastingTable DEF ClosedIsEmpty
  <2>2. Shrinks(s)
    <3>1. ASSUME NEW w \in Workers, NEW r \in Services, DequeueConnection(w, r) PROVE Shrinks(s)
      <4>1. Up /\ fd' = fd
        BY <3>1, DequeueGrows DEF DequeueConnection
      <4> QED
        BY <3>1, <4>1, DequeueGrows DEF TableInv, OpenInv
    <3>2. ASSUME NEW w \in Workers, Link(w) PROVE Shrinks(s)
      <4>1. wsvc[w] \in Services
        BY <3>2 DEF Link, TypeInv, WorkerTypeOK
      <4> QED
        BY <2>1, <3>2, <4>1, LinkMoves
    <3> QED
      BY <1>2, <3>1, <3>2, MostStepsShrink
  <2> QED
    BY <2>1, <2>2 DEF Shrinks
<1> QED
  BY <1>1, <1>2

LEMMA ClosedInit == Init => ClosedIsEmpty
BY DEF Init, ClosedIsEmpty, InFlight, Busy

LastingInv == TypeInv /\ TableInv /\ FreshInv /\ StartInv /\ ClosedIsEmpty

\* What holds all along in such a program.
LEMMA LastingSafety == ASSUME Lasting PROVE Spec => []LastingInv
<1>1. Init => LastingInv
  BY InitType, TableInit, FreshInit, StartInit, ClosedInit DEF LastingInv
<1>2. LastingInv /\ [Next]_vars => LastingInv'
  BY NextType, TableNext, FreshNext, StartNext, ClosedNext DEF LastingInv
<1> QED
  BY <1>1, <1>2, PTL DEF Spec

-----------------------------------------------------------------------------
(* No child is forgotten.                                                  *)

\* A process that is there, or waits to be reaped, and that no worker holds.
Loose(p) == life[p] # "free" /\ \A w \in Workers : wpid[w] # p
Known(p) == owner[p] \in Services /\ p \in children[owner[p]]

LooseInv == Up => \A p \in Pids : Loose(p) => Known(p)

LEMMA ForgottenKept ==
  ASSUME LooseInv, Up,
         \A p \in Pids : Loose(p)' => \/ Known(p)'
                                      \/ Loose(p) /\ (Known(p) => Known(p)')
  PROVE  LooseInv'
BY DEF LooseInv

LEMMA ForgottenWorker ==
  ASSUME Lasting, TypeInv, ProcInv, StartInv, LooseInv, NEW w \in Workers, Worker(w)
  PROVE  LooseInv'
<1>0. Up /\ ~Looping(w) /\ ~AddDuplicate(w)
  BY WorkerLeaves, NeverClosed DEF AddDuplicate, ProcInv, HeldInv, Holding
<1>1. CASE Refuse(w) \/ LoopingAlarm(w) \/ ForkError(w)
  <2>1. UNCHANGED <<life, owner, children>> /\ ~Holding(w) /\ ToIdle(w)
    BY <1>1 DEF Refuse, LoopingAlarm, ForkError, svcVars, procVars, Holding
  <2>2. wpid' = wpid
    BY <2>1, ProcIdle
  <2> QED
    BY <1>0, <2>1, <2>2, ForgottenKept DEF Loose, Known
<1>2. ASSUME NEW p \in Pids, Fork(w, p) PROVE LooseInv'
  <2>1. /\ life' = [life EXCEPT ![p] = "running"] /\ owner' = [owner EXCEPT ![p] = wsvc[w]]
        /\ wpid' = [wpid EXCEPT ![w] = p] /\ children' = children
        /\ wpid[w] = NoPid
    BY <1>2 DEF Fork, svcVars, ProcInv, HeldInv, Holding
  <2>2. ASSUME NEW q \in Pids, Loose(q)' PROVE Loose(q) /\ (Known(q) => Known(q)')
    <3>1. q # p
      BY <2>1, <2>2 DEF Loose, TypeInv, TypeOK
    <3> QED
      BY <2>1, <2>2, <3>1, InetdAssumption DEF InetdAssumption, Loose, Known, TypeInv, TypeOK
  <2> QED
    BY <1>0, <2>2, ForgottenKept
<1>3. CASE Link(w)
  <2>1. PICK p \in Pids, s \in Services : p = wpid[w] /\ s = wsvc[w]
    BY <1>3 DEF Link, TypeInv, WorkerTypeOK
  <2>2. /\ children' = [children EXCEPT ![s] = @ \cup {p}] /\ ToIdle(w)
        /\ UNCHANGED <<life, owner>> /\ owner[p] = s
    BY <1>3, <2>1 DEF Link, procVars, ProcInv, HeldInv, Holding
  <2>3. Known(p)' /\ \A q \in Pids : Known(q) => Known(q)'
    BY <2>2 DEF Known, TypeInv, TypeOK
  <2>4. \A q \in Pids : q # p /\ Loose(q)' => Loose(q)
    BY <2>1, <2>2 DEF Loose, ToIdle, TypeInv, TypeOK
  <2> QED
    BY <1>0, <2>3, <2>4, ForgottenKept
<1>4. CASE UNCHANGED <<life, owner, children, wpid>>
  BY <1>0, <1>4, ForgottenKept DEF Loose, Known
<1> QED
  BY <1>0, <1>1, <1>2, <1>3, <1>4 DEF Worker, DequeueConnection, DequeueFailure, Admit,
     AddProc, AddCorrupt, LinkCorrupt, Corrupt, svcVars, procVars, workVars

LEMMA ForgottenNext ==
  ASSUME Lasting, TypeInv, ProcInv, StartInv, LooseInv, [Next]_vars
  PROVE  LooseInv'
<1>1. ASSUME NEW w \in Workers, Worker(w) PROVE LooseInv'
  BY <1>1, ForgottenWorker
<1>2. ASSUME NEW p \in Pids, ChildExit(p) \/ WaitChild(p) PROVE LooseInv'
  <2>1. /\ Up /\ UNCHANGED <<owner, children, wpid>>
        /\ life[p] # "free" /\ \A q \in Pids : life'[q] # "free" => life[q] # "free"
    BY <1>2 DEF ChildExit, WaitChild, svcVars, workVars, TypeInv, TypeOK
  <2> QED
    BY <2>1, ForgottenKept DEF Loose, Known
<1>3. CASE Unlink \/ FreeProc
  <2>1. /\ Up /\ UNCHANGED <<life, owner, wpid>> /\ life[mpid] = "free"
        /\ \A s \in Services : children[s] \subseteq children'[s] \cup {mpid}
    <3>1. Up /\ UNCHANGED <<life, owner, wpid>> /\ mpc \in {"unlink", "free"}
      BY <1>3 DEF Unlink, FreeProc, procVars, workVars
    <3>2. life[mpid] = "free"
      BY <3>1 DEF ProcInv, ReapedInv, Reaping
    <3>3. \A s \in Services : children[s] \subseteq children'[s] \cup {mpid}
      <4>1. CASE Unlink
        BY <4>1 DEF Unlink, TypeInv, TypeOK
      <4>2. CASE FreeProc
        BY <4>2 DEF FreeProc
      <4> QED
        BY <1>3, <4>1, <4>2
    <3> QED
      BY <3>1, <3>2, <3>3
  <2>2. ASSUME NEW p \in Pids, Loose(p)' PROVE Loose(p) /\ (Known(p) => Known(p)')
    BY <2>1, <2>2 DEF Loose, Known
  <2> QED
    BY <2>1, <2>2, ForgottenKept
<1>4. CASE Next /\ UNCHANGED <<life, owner, children, wpid>>
  BY <1>4, NextUp, ForgottenKept DEF Loose, Known
<1>5. CASE UNCHANGED vars
  BY <1>5 DEF vars, svcVars, procVars, workVars, Up, LooseInv, Loose, Known
<1> QED
  BY <1>1, <1>2, <1>3, <1>4, <1>5, NeverClosed, ZenonT(40) DEF Next, Main, Environment, Timer,
     Connect,
     ConnectReset, RaiseHup, TimerExpire, TimerFlag, Reap, TakeChld, WaitNone, SearchMiss,
     SearchHit, SearchCorrupt, UnlinkCorrupt, FreeCorrupt, Corrupt, TakeAlrm, Retry, RetryDone,
     TakeTerm, Config, TakeHupNoFile, ConfigAbort, ConfigNew, ConfigEnable, ConfigSwap,
     ConfigDone, svcVars, procVars, workVars

\* While no service is closed, se_children is exactly the processes of the service that no
\* worker and no reapchild() has in hand.
THEOREM ChildrenKnown == ASSUME Waited, Lasting PROVE Spec => []ChildrenCounted
<1> DEFINE IInv == TypeInv /\ ProcInv /\ StartInv /\ LooseInv
<1>1. Init => IInv
  BY InitType, ProcInit, StartInit DEF Init, LooseInv, Loose
<1>2. IInv /\ [Next]_vars => IInv'
  BY NextType, ProcNext, StartNext, ForgottenNext
<1>3. IInv => NoForgottenChild
  BY DEF LooseInv, Loose, Known, NoForgottenChild
<1>4. NoForgottenChild /\ NoPhantomChild => ChildrenCounted
  BY DEF ChildrenCounted
<1> QED
  BY <1>1, <1>2, <1>3, <1>4, PhantomFree, PTL DEF Spec

-----------------------------------------------------------------------------
(* The limit, when no service is ever closed: a service overshoots its own *)
(* limit by fewer than the number of workers.                              *)

RunningHasRoom == Up => \A s \in Services : running[s] => ~Exceeds(s, Count(s))

LEMMA LimitsTypes == Limits \subseteq Nat
<1>1. Limits \subseteq 0 .. MaxLimit /\ MaxLimit \in Nat
  BY InetdAssumption DEF InetdAssumption
<1>2. 0 .. MaxLimit \subseteq Nat
  BY <1>1
<1> QED
  BY <1>1, <1>2

LEMMA RoomTypes ==
  ASSUME TypeInv, NEW s \in Services
  PROVE  /\ maxchild[s] \in Nat /\ Count(s) \in Nat /\ Load(s) \in Nat /\ NumWorkers \in Nat
         /\ Count(s) <= Load(s) /\ Load(s) <= Count(s) + NumWorkers
<1>1. maxchild[s] \in Nat
  BY LimitsTypes DEF TypeInv, TypeOK
<1> QED
  BY <1>1, LoadTypes DEF Load

\* Where a step of the main thread starts a service, it was closed or has room.
LEMMA RoomStarts ==
  ASSUME Lasting, TypeInv, StartInv, Next,
         \A w \in Workers : ~Link(w) /\ \A s \in Services : ~DequeueConnection(w, s)
  PROVE  Up' => \A s \in Services :
           running'[s] => running[s] \/ ~fd[s] \/ ~Exceeds(s, Count(s))'
<1> USE DEF Exceeds
<1>1. CASE Unlink
  <2>1. PICK s \in Services : Unlink!(s)
    BY <1>1 DEF Unlink
  <2>2. maxchild' = maxchild /\ children'[s] = children[s] \ {mpid}
    BY <2>1 DEF TypeInv, TypeOK
  <2>3. CASE Exceeds(s, Cardinality(children[s] \ {mpid}))
    BY <2>1, <2>3
  <2>4. CASE ~Exceeds(s, Cardinality(children[s] \ {mpid}))
    <3>1. ~Exceeds(s, Count(s))'
      BY <2>2, <2>4 DEF Count
    <3> QED
      BY <2>1, <2>4, <3>1, EnableOpen
  <2> QED
    BY <2>3, <2>4
<1>2. CASE ConfigEnable
  <2>1. PICK s \in Services : s = msvc
    BY <1>2 DEF ConfigEnable, TypeInv, MainTypeOK
  <2>2. Count(s)' = Count(s) /\ maxchild' = maxchild
    BY <1>2 DEF ConfigEnable, Count
  <2>3. CASE Setup(s) /\ ~fd[s]
    BY <2>3, SetupOpen
  <2>4. CASE Enable(s) /\ ~Exceeds(s, Count(s))
    BY <2>2, <2>4, EnableOpen
  <2>5. CASE UNCHANGED running
    BY <2>5
  <2> QED
    BY <1>2, <2>1, <2>3, <2>4, <2>5 DEF ConfigEnable
<1>3. ASSUME NEW s \in Services, Retry(s)
      PROVE  \A r \in Services : running'[r] => running[r] \/ ~fd[r]
  BY <1>3, SetupOpen DEF Retry
<1>4. ASSUME NEW s \in Services, ConfigNew(s)
      PROVE  \A r \in Services : running'[r] => running[r]
  BY <1>4 DEF ConfigNew, TypeInv, TypeOK
<1>5. CASE UNCHANGED running
  BY <1>5
<1> QED
  BY <1>1, <1>2, <1>3, <1>4, <1>5, NeverClosed DEF Next, Main, Environment, Timer, Connect,
     ConnectReset, ChildExit, TimerExpire, TimerFlag, Worker, DequeueFailure, Refuse, Admit,
     LoopingAlarm, Fork, ForkError, AddProc, AddDuplicate, AddCorrupt, LinkCorrupt, Reap, TakeChld,
     WaitNone, WaitChild, SearchMiss, SearchHit, SearchCorrupt, UnlinkCorrupt, FreeProc,
     FreeCorrupt, Corrupt, TakeAlrm, RetryDone, TakeTerm, Config, TakeHupNoFile, ConfigAbort,
     ConfigSwap, ConfigDone, svcVars

OverInv == RunningHasRoom /\ OvershootByWorkers

\* A step that only shrinks what a service carries, and starts only what has room.
LEMMA OverShrinks ==
  ASSUME Lasting, LastingInv, TypeInv', OverInv, Next,
         \A w \in Workers : ~Link(w) /\ \A s \in Services : ~DequeueConnection(w, s)
  PROVE  OverInv'
<1>0. TypeInv /\ Up
  BY NextUp DEF LastingInv
<1>1. \A s \in Services : /\ Count(s)' <= Count(s) /\ Load(s)' <= Load(s)
                          /\ Count(s)' \in Nat /\ Load(s)' \in Nat
  BY <1>0, MostStepsShrink, LoadShrinks
<1>2. \A s \in Services : ~fd[s] => Count(s) = 0 /\ Load(s) = 0
  BY FS_EmptySet DEF LastingInv, ClosedIsEmpty, Count, Load
<1>3. \A s \in Services : maxchild[s] \in Nat /\ maxchild'[s] \in Nat
  BY <1>0, LimitsTypes DEF TypeInv, TypeOK
<1>4. Up' => \A s \in Services :
        running'[s] => running[s] \/ ~fd[s] \/ ~Exceeds(s, Count(s))'
  BY <1>0, RoomStarts DEF LastingInv
<1>5. \A s \in Services :
        \/ maxchild'[s] = maxchild[s]
        \/ Load(s) = 0 /\ Count(s) = 0 /\ ~running'[s]
  <2>1. ASSUME NEW s \in Services, ConfigNew(s), children[s] = {}, InFlight(s) = {}
        PROVE  Load(s) = 0 /\ Count(s) = 0 /\ ~running'[s]
    BY <1>0, <2>1, FS_EmptySet DEF Load, Count, ConfigNew, TypeInv, TypeOK
  <2> QED
    BY <1>0, <2>1, LastingTable DEF LastingInv
<1>6. RunningHasRoom'
  BY <1>0, <1>1, <1>2, <1>3, <1>4, <1>5, RoomTypes DEF OverInv, RunningHasRoom, Exceeds
<1>7. \A s \in Services : maxchild'[s] > 0 => Load(s)' < maxchild'[s] + NumWorkers
  BY <1>0, <1>1, <1>3, <1>5, RoomTypes DEF OverInv, OvershootByWorkers, Load, NumWorkers
<1>8. OvershootByWorkers'
  BY <1>7 DEF OvershootByWorkers, Load, NumWorkers
<1> QED
  BY <1>6, <1>8 DEF OverInv

LEMMA OverDequeue ==
  ASSUME LastingInv, OverInv, NEW w \in Workers, NEW s \in Services, DequeueConnection(w, s),
         TypeInv'
  PROVE  OverInv'
<1>0. TypeInv /\ Up /\ UNCHANGED <<children, running, maxchild>>
  BY DequeueGrows DEF LastingInv, DequeueConnection
<1>1. \A r \in Services : Count(r)' = Count(r)
  BY <1>0 DEF Count
<1>2. RunningHasRoom'
  BY <1>0, <1>1 DEF OverInv, RunningHasRoom, Exceeds
<1>3. ASSUME NEW r \in Services, maxchild[r] > 0 PROVE Load(r)' < maxchild[r] + NumWorkers
  <2>1. CASE running[r]
    <3>1. Count(r)' < maxchild[r] /\ Count(r)' \in Nat
      BY <1>0, <1>1, <1>3, <2>1, RoomTypes DEF OverInv, RunningHasRoom, Exceeds
    <3>2. Cardinality(InFlight(r)') \in 0 .. NumWorkers
      <4>1. IsFiniteSet(Workers) /\ InFlight(r)' \subseteq Workers
        BY InetdAssumption DEF InetdAssumption, InFlight
      <4> QED
        BY <4>1, FS_Subset, FS_CardinalityType DEF NumWorkers
    <3>3. maxchild[r] \in Nat /\ NumWorkers \in Nat
      BY <1>0, RoomTypes
    <3> QED
      BY <3>1, <3>2, <3>3 DEF Load
  <2>2. CASE Shrinks(r)
    <3>1. Load(r)' <= Load(r) /\ Load(r)' \in Nat
      BY <1>0, <2>2, LoadShrinks
    <3> QED
      BY <1>0, <1>3, <3>1, RoomTypes DEF OverInv, OvershootByWorkers, Load, NumWorkers
  <2> QED
    BY <1>0, <2>1, <2>2, DequeueGrows
<1>4. OvershootByWorkers'
  BY <1>0, <1>3 DEF OvershootByWorkers, Load, NumWorkers
<1> QED
  BY <1>2, <1>4 DEF OverInv

LEMMA OverLink ==
  ASSUME LastingInv, OverInv, NEW w \in Workers, Link(w), TypeInv'
  PROVE  OverInv'
<1>0. TypeInv /\ Up /\ maxchild' = maxchild
  BY DEF LastingInv, Link
<1>1. PICK s \in Services : s = wsvc[w]
  BY <1>0 DEF Link, TypeInv, WorkerTypeOK
<1>2. \A r \in Services : /\ Load(r)' <= Load(r) /\ Load(r)' \in Nat
                          /\ r # s => Count(r)' <= Count(r) /\ Count(r)' \in Nat
  BY <1>0, <1>1, LinkMoves, LoadShrinks
<1>3. ASSUME NEW r \in Services, running'[r] PROVE ~Exceeds(r, Count(r))'
  <2>1. running[r]
    BY <1>0, <1>1, <1>3, DisableOpen DEF Link
  <2>2. CASE r = s
    <3>1. children'[s] = children[s] \cup {wpid[w]} /\ ~Exceeds(s, Cardinality(children'[s]))
      BY <1>0, <1>1, <1>3, <2>2 DEF Link, Disable, TypeInv, TypeOK
    <3> QED
      BY <1>0, <2>2, <3>1 DEF Exceeds, Count
  <2>3. CASE r # s
    BY <1>0, <1>2, <2>1, <2>3, RoomTypes DEF OverInv, RunningHasRoom, Exceeds
  <2> QED
    BY <2>2, <2>3
<1>4. OvershootByWorkers'
  <2>1. \A r \in Services : maxchild[r] > 0 => Load(r)' < maxchild[r] + NumWorkers
    BY <1>0, <1>2, RoomTypes DEF OverInv, OvershootByWorkers, Load, NumWorkers
  <2> QED
    BY <1>0, <2>1 DEF OvershootByWorkers, Load, NumWorkers
<1> QED
  BY <1>3, <1>4 DEF OverInv, RunningHasRoom

LEMMA OverNext == ASSUME Lasting, LastingInv, TypeInv', OverInv, [Next]_vars PROVE OverInv'
<1>1. CASE UNCHANGED vars
  <2>1. UNCHANGED <<children, running, maxchild, wpc, wsvc, down>>
    BY <1>1 DEF vars, svcVars, workVars
  <2> QED
    BY <2>1 DEF OverInv, RunningHasRoom, OvershootByWorkers, Exceeds, Count, InFlight, Busy, Up
<1> QED
  BY <1>1, OverShrinks, OverDequeue, OverLink

\* While no service is closed, a service with a limit has fewer children, and connections on
\* their way to become one, than its own se_maxchild and the number of workers together.
THEOREM OvershootOfOwnLimit == ASSUME Lasting PROVE Spec => []OvershootByWorkers
<1>1. Init => OverInv
  <2> SUFFICES ASSUME Init PROVE OverInv
    OBVIOUS
  <2>1. \A s \in Services : Count(s) = 0 /\ Cardinality(InFlight(s)) = 0
    BY FS_EmptySet DEF Init, Count, InFlight, Busy
  <2>2. \A s \in Services : maxchild[s] \in Nat
    BY InitType, LimitsTypes DEF TypeInv, TypeOK
  <2>3. Cardinality(Workers) \in Nat
    BY ChildBoundTypes DEF NumWorkers
  <2>4. \A s \in Services : ~running[s]
    BY DEF Init
  <2> QED
    BY <2>1, <2>2, <2>3, <2>4 DEF OverInv, RunningHasRoom, OvershootByWorkers
<1>2. LastingInv /\ LastingInv' /\ OverInv /\ [Next]_vars => OverInv'
  BY OverNext DEF LastingInv
<1>3. OverInv => OvershootByWorkers
  BY DEF OverInv
<1> QED
  BY <1>1, <1>2, <1>3, LastingSafety, PTL DEF Spec

-----------------------------------------------------------------------------
(* Nothing ends the daemon.                                                *)

NoneFreed == \A p \in Pids : proctable[p] # "freed"

LEMMA FreedNext == ASSUME Lasting, TypeInv, StartInv, NoneFreed, [Next]_vars PROVE NoneFreed'
<1>1. ASSUME NEW w \in Workers, Worker(w) PROVE NoneFreed'
  <2>1. CASE AddProc(w)
    BY <2>1 DEF AddProc, NoneFreed, TypeInv, TypeOK
  <2>2. CASE UNCHANGED proctable
    BY <2>2 DEF NoneFreed
  <2> QED
    BY <1>1, <2>1, <2>2, NeverClosed DEF Worker, DequeueConnection, DequeueFailure, Refuse,
       Admit,
       LoopingAlarm, Fork, ForkError, AddDuplicate, AddCorrupt, Link, LinkCorrupt, Corrupt, procVars
<1>2. CASE Reap
  BY <1>2 DEF NoneFreed, Reap, TakeChld, WaitNone, WaitChild, SearchMiss, SearchHit,
     SearchCorrupt, Unlink, UnlinkCorrupt, FreeProc, FreeCorrupt, Corrupt, procVars, TypeInv, TypeOK
<1>3. CASE UNCHANGED proctable
  BY <1>3 DEF NoneFreed
<1>4. CASE Environment \/ Timer \/ UNCHANGED vars
  BY <1>3, <1>4 DEF Environment, Timer, Connect, ConnectReset, ChildExit, RaiseHup, TimerExpire,
     TimerFlag, procVars, vars
<1>5. CASE TakeAlrm \/ RetryDone \/ TakeTerm \/ Config \/ \E s \in Services : Retry(s)
  BY <1>3, <1>5, NeverClosed DEF TakeAlrm, Retry, RetryDone, TakeTerm, Config, TakeHupNoFile,
     ConfigAbort, ConfigNew, ConfigEnable, ConfigSwap, ConfigDone, procVars
<1> QED
  BY <1>1, <1>2, <1>4, <1>5 DEF Next, Main

\* A child that is counted is counted by a service of the table once config() is over.
LEMMA NoOrphan ==
  ASSUME LastingInv, Up, mpc \notin {"config", "adjust", "reset", "enable", "purge"}
  PROVE  \A p \in Pids : ~Orphan(p)
BY DEF LastingInv, ClosedIsEmpty, TableInv, OpenInv, Listed, Configuring, Orphan, Referenced

LEMMA NeverCorrupt ==
  ASSUME LastingInv, ProcInv, NoneFreed
  PROVE  /\ \A w \in Workers : ~AddDuplicate(w) /\ ~AddCorrupt(w) /\ ~LinkCorrupt(w)
         /\ ~SearchCorrupt /\ ~UnlinkCorrupt /\ ~FreeCorrupt
<1>1. ~Dangling
  BY DEF NoneFreed, Dangling
<1>2. \A w \in Workers : ~AddDuplicate(w) /\ ~AddCorrupt(w) /\ ~LinkCorrupt(w)
  BY <1>1 DEF AddDuplicate, AddCorrupt, LinkCorrupt, ProcInv, HeldInv, Holding
<1>3. mpc \in {"unlink", "free"} => mpid \in Pids
  BY DEF LastingInv, TypeInv, MainTypeOK
<1>4. ~SearchCorrupt /\ ~UnlinkCorrupt /\ ~FreeCorrupt
  BY <1>1, <1>3, NoOrphan DEF SearchCorrupt, UnlinkCorrupt, FreeCorrupt, NoneFreed
<1> QED
  BY <1>2, <1>4

\* Sockets and binds may fail; everything else that could end the daemon is left out.
Undisturbed == Waited /\ Accepted /\ Lasting /\ "bad config" \notin Hazards

\* Where AcceptEx is granted, a helper that has a socket does not terminate().
LEMMA StartsUp ==
  ASSUME Accepted, Up, NEW s \in Services, Setup(s) \/ (fd[s] /\ Enable(s))
  PROVE  down' = down
BY DEF Accepted, Setup, Enable, AcceptRefused

LEMMA DaemonNext ==
  ASSUME Undisturbed, LastingInv, ProcInv, NoneFreed, DaemonUp, [Next]_vars
  PROVE  DaemonUp'
<1> USE DEF DaemonUp
<1>0. Lasting /\ Accepted /\ TypeInv /\ StartInv /\ "bad config" \notin Hazards
  BY DEF Undisturbed, LastingInv
<1>1. CASE Environment \/ Timer
  BY <1>1 DEF Environment, Timer, Connect, ConnectReset, ChildExit, RaiseHup, TimerExpire,
     TimerFlag, Flag, sigVars, Up
<1>2. ASSUME NEW w \in Workers, Worker(w) PROVE DaemonUp'
  BY <1>2, NeverCorrupt DEF Worker, DequeueConnection, DequeueFailure, Refuse, Admit, Looping,
     LoopingAlarm, Fork, ForkError, AddProc, Link, sigVars, Up
<1>3. CASE \/ TakeChld \/ WaitNone \/ SearchMiss \/ SearchHit \/ FreeProc
           \/ \E p \in Pids : WaitChild(p)
  BY <1>3 DEF TakeChld, TakeSignal, WaitNone, WaitChild, SearchMiss, SearchHit, FreeProc,
     sigVars,
     Up
<1>4. CASE SearchCorrupt \/ UnlinkCorrupt \/ FreeCorrupt
  BY <1>4, NeverCorrupt
<1>5. CASE Unlink
  <2>1. PICK s \in Services : Unlink!(s)
    BY <1>5 DEF Unlink
  <2>2. fd[s] /\ Up
    BY <2>1 DEF LastingInv, ClosedIsEmpty
  <2>3. down' = down
    BY <1>0, <2>1, <2>2, StartsUp
  <2> QED
    BY <2>1, <2>3 DEF sigVars, Up
<1>6. ASSUME NEW s \in Services, Retry(s) PROVE DaemonUp'
  <2>1. down' = down /\ signals' = signals
    BY <1>0, <1>6, StartsUp DEF Retry
  <2> QED
    BY <2>1 DEF Up
<1>7. CASE TakeAlrm \/ RetryDone \/ TakeTerm
  BY <1>7 DEF TakeAlrm, TakeSignal, RetryDone, TakeTerm, sigVars, Up
<1>8. CASE ConfigEnable
  <2>1. msvc \in Services /\ Up
    BY <1>0, <1>8 DEF ConfigEnable, TypeInv, MainTypeOK
  <2>2. down' = down /\ signals' = signals
    BY <1>0, <1>8, <2>1, StartsUp DEF ConfigEnable
  <2> QED
    BY <2>2 DEF Up
<1>9. CASE Config /\ ~ConfigEnable
  BY <1>0, <1>9, NeverClosed DEF Config, TakeHupNoFile, ConfigAbort, ConfigNew, ConfigSwap,
     ConfigDone, sigVars, Up
<1>10. CASE UNCHANGED vars
  BY <1>10 DEF vars, sigVars, Up
<1> QED
  BY <1>1, <1>2, <1>3, <1>4, <1>5, <1>6, <1>7, <1>8, <1>9, <1>10 DEF Next, Main, Reap

\* Then nothing that clients and children do, in any order, ends the daemon: no duplicate
\* pid, no deleted procinfo or servtab is used, and no enable() lacks its socket.
THEOREM DaemonStaysUp == ASSUME Undisturbed PROVE Spec => []DaemonUp
<1> DEFINE IInv == NoneFreed /\ DaemonUp
<1>1. Init => IInv
  BY DEF Init, NoneFreed, DaemonUp, Up
<1>2. LastingInv /\ ProcInv /\ IInv /\ [Next]_vars => IInv'
  BY FreedNext, DaemonNext DEF LastingInv, Undisturbed
<1>3. IInv => DaemonUp
  OBVIOUS
<1>4. Lasting /\ Waited
  BY DEF Undisturbed
<1> QED
  BY <1>1, <1>2, <1>3, <1>4, LastingSafety, ProcSafety, PTL DEF Spec

=============================================================================

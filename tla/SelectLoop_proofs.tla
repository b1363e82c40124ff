-------------------------- MODULE SelectLoop_proofs --------------------------
(***************************************************************************)
(* Proofs about SelectLoop, for any services, processes, descriptors and   *)
(* limits: the set of select() is that of the running services, a service  *)
(* runs while it has room, children are counted exactly, and a child is    *)
(* added only where there was room when select() returned.                 *)
(***************************************************************************)
EXTENDS SelectLoop, FiniteSetTheorems, TLAPS

-----------------------------------------------------------------------------
(* The invariant.                                                          *)

\* The set of select() has descriptors of running services only, and, with room for them,
\* of all of them.
WatchedOnly == \A f \in allsock : f # PipeFd => \E s \in Services : running[s] /\ fd[s] = f
WatchedAll  == Cardinality(Fds) < FdMax => \A s \in Services : running[s] => fd[s] \in allsock
Distinct    == \A s, t \in Services : fd[s] = fd[t] /\ Open(s) => s = t

\* Children, limits and sockets go together; what close_sep() deleted is not reaped.
Room        == \A s \in Services : running[s] <=> Open(s) /\ ~Exceeds(maxchild[s], Count(s))
ClosedEmpty == \A s \in Services : ~Open(s) => children[s] = {}
Owned       == \A p \in Pids : life[p] # "free" => owner[p] \in Services
Exact       == \A p \in Pids, s \in Services :
                 p \in children[s] <=> life[p] # "free" /\ owner[p] = s /\ p \notin stale
StaleLives  == \A p \in stale : life[p] # "free"

\* Where an open service is listed, while the table is exchanged.
Listed ==
  /\ \A s \in Services : Open(s) => \/ s \in inTable
                                    \/ mpc = "config" /\ s \in mnew \ todo
                                    \/ mpc = "purge" /\ s \in todo
  /\ mpc = "config" => todo \subseteq mnew
  /\ mpc = "retry" => todo \subseteq inTable

\* What select() returned is a running service or one that this round reconfigured.
SeenRuns ==
  /\ mpc \in {"scan", "read"} => \A s \in todo : Open(s) /\ (s \in adjusted \/ running[s])
  /\ mpc \in {"signals", "reap", "retry", "config", "purge"} =>
       \A s \in Services : Open(s) /\ fd[s] \in readable => s \in adjusted \/ running[s]

Core == /\ WatchedOnly /\ WatchedAll /\ Distinct /\ Room /\ ClosedEmpty /\ Owned /\ Exact
        /\ StaleLives /\ Listed /\ SeenRuns

LoopInv == TypeOK /\ (Up => Core)

-----------------------------------------------------------------------------
(* Helpers.                                                                *)

Kinds == {"nowait", "wait", "builtin"}

LEMMA KindsAre == ASSUME NEW s \in Services PROVE KindsOf(s) \subseteq Kinds /\ NoKind(s) \in Kinds
<1>1. KindsOf(s) \subseteq Kinds /\ KindsOf(s) # {}
  BY DEF KindsOf, Kinds
<1> QED
  BY <1>1, Zenon DEF NoKind

LEMMA FdSetBetween ==
  ASSUME NEW f, NEW set PROVE set \subseteq FdSet(f, set) /\ FdSet(f, set) \subseteq set \cup {f}
BY DEF FdSet

\* With room for all descriptors and the pipe, FD_SET adds what it is given.
LEMMA FdSetAdds ==
  ASSUME SelectAssumption, Cardinality(Fds) < FdMax,
         NEW set \in SUBSET (Fds \cup {PipeFd}), NEW f \in Fds \cup {PipeFd}
  PROVE  f \in FdSet(f, set)
<1>1. CASE Cardinality(set) < FdMax
  BY <1>1 DEF FdSet
<1>2. CASE ~(Cardinality(set) < FdMax)
  <2>1. /\ IsFiniteSet(Fds \cup {PipeFd})
        /\ Cardinality(Fds \cup {PipeFd}) = Cardinality(Fds) + 1
    BY FS_AddElement DEF SelectAssumption
  <2>2. /\ Cardinality(set) <= Cardinality(Fds \cup {PipeFd})
        /\ Cardinality(Fds \cup {PipeFd}) = Cardinality(set) => Fds \cup {PipeFd} = set
        /\ IsFiniteSet(set)
    BY <2>1, FS_Subset
  <2>3. Cardinality(set) \in Nat /\ Cardinality(Fds) \in Nat /\ FdMax \in Nat
    BY <2>2, FS_CardinalityType DEF SelectAssumption
  <2>4. set = Fds \cup {PipeFd}
    BY <1>2, <2>1, <2>2, <2>3
  <2> QED
    BY <2>4, FdSetBetween
<1> QED
  BY <1>1, <1>2

LEMMA TypeInit == ASSUME SelectAssumption, Init PROVE TypeOK
<1>1. \A s \in Services : NoKind(s) \in Kinds
  BY KindsAre
<1>2. kind \in [Services -> Kinds]
  BY <1>1 DEF Init
<1>3. 0 \in 0 .. MaxRate /\ 0 \in 0 .. MaxWaiting
  BY DEF SelectAssumption
<1> QED
  BY <1>2, <1>3 DEF Init, TypeOK, Kinds, Signals

-----------------------------------------------------------------------------
(* Types.                                                                  *)

\* The variables of services and what close_sep() and setup() do to them.
LEMMA CloseSepTypes ==
  ASSUME SelectAssumption, TypeOK, NEW s \in Services, CloseSep(s)
  PROVE  /\ running' \in [Services -> BOOLEAN]
         /\ allsock' \subseteq Fds \cup {PipeFd}
         /\ fd' \in [Services -> Fds \cup {NoFd}]
         /\ waiting' \in [Services -> 0 .. MaxWaiting]
         /\ children' \in [Services -> SUBSET Pids]
         /\ stale' \subseteq Pids
         /\ secount' \in [Services -> 0 .. MaxRate]
BY DEF CloseSep, TypeOK, SelectAssumption

LEMMA SetupTypes ==
  ASSUME TypeOK, NEW s \in Services, NEW set \in SUBSET (Fds \cup {PipeFd}), Setup(s, set)
  PROVE  /\ fd' \in [Services -> Fds \cup {NoFd}]
         /\ running' \in [Services -> BOOLEAN]
         /\ allsock' \subseteq Fds \cup {PipeFd}
         /\ timingout' \in BOOLEAN
<1>1. CASE timingout' \in {timingout, TRUE} /\ fd' = [fd EXCEPT ![s] = NoFd]
           /\ running' = [running EXCEPT ![s] = FALSE] /\ allsock' = set
  BY <1>1 DEF TypeOK
<1>2. ASSUME NEW f \in Fds, fd' = [fd EXCEPT ![s] = f], running' = [running EXCEPT ![s] = TRUE],
             allsock' = FdSet(f, set), UNCHANGED timingout
      PROVE  /\ fd' \in [Services -> Fds \cup {NoFd}] /\ running' \in [Services -> BOOLEAN]
             /\ allsock' \subseteq Fds \cup {PipeFd} /\ timingout' \in BOOLEAN
  <2>1. FdSet(f, set) \subseteq set \cup {f}
    BY FdSetBetween
  <2> QED
    BY <1>2, <2>1 DEF TypeOK
<1> QED
  BY <1>1, <1>2 DEF Setup

LEMMA EnvironmentTypes ==
  ASSUME TypeOK, Owned, SelectAssumption, Environment \/ TimerFires PROVE TypeOK'
<1> USE DEF TypeOK, given, svcVars, procVars, mainVars, Signals, Flagged, SelectAssumption
<1>1. ASSUME NEW s \in Services, Arrive(s) PROVE TypeOK'
  BY <1>1 DEF Arrive, sigVars
<1>2. ASSUME NEW p \in Pids, ServerTakes(p) PROVE TypeOK'
  <2>1. owner[p] \in Services /\ waiting[owner[p]] > 0
    BY <1>2 DEF ServerTakes, Owned
  <2>2. waiting' \in [Services -> 0 .. MaxWaiting]
    BY <1>2, <2>1 DEF ServerTakes
  <2> QED
    BY <1>2, <2>2 DEF ServerTakes, sigVars
<1>3. ASSUME NEW p \in Pids, ChildExit(p) PROVE TypeOK'
  BY <1>3 DEF ChildExit
<1>4. ASSUME NEW sig \in Signals, Raise(sig) PROVE TypeOK'
  BY <1>4 DEF Raise
<1>5. CASE TimerFires
  BY <1>5 DEF TimerFires
<1> QED
  BY <1>1, <1>2, <1>3, <1>4, <1>5 DEF Environment

\* The thread at select(), and the signals.
LEMMA SignalTypes ==
  ASSUME TypeOK, SelectAssumption,
         Select \/ EndSignals \/ TakeChld \/ TakeAlrm \/ TakeTerm \/ TakeHup \/ TakeHupNoFile
  PROVE  TypeOK'
<1> USE DEF TypeOK, given, svcVars, procVars, Take
<1>1. CASE Select
  BY <1>1 DEF Select, sigVars
<1>2. CASE EndSignals
  BY <1>2 DEF EndSignals, sigVars
<1>3. CASE TakeChld
  BY <1>3 DEF TakeChld
<1>4. CASE TakeAlrm
  BY <1>4 DEF TakeAlrm
<1>5. CASE TakeTerm
  BY <1>5 DEF TakeTerm
<1>6. CASE TakeHup
  BY <1>6 DEF TakeHup
<1>7. CASE TakeHupNoFile
  BY <1>7 DEF TakeHupNoFile
<1> QED
  BY <1>1, <1>2, <1>3, <1>4, <1>5, <1>6, <1>7

\* reapchild() of p, for the service o it was started for.
Stopped(o, n) == Exceeds(maxchild[o], n) /\ UNCHANGED <<running, allsock>>

Started(o, n) ==
  /\ ~Exceeds(maxchild[o], n)
  /\ running' = [running EXCEPT ![o] = TRUE]
  /\ allsock' = IF running[o] THEN allsock ELSE FdSet(fd[o], allsock)

Reaped(p, o) ==
  /\ life[p] = "exited" /\ owner[p] = o /\ Open(o) /\ p \in children[o]
  /\ life' = [life EXCEPT ![p] = "free"] /\ owner' = [owner EXCEPT ![p] = NoService]
  /\ children' = [children EXCEPT ![o] = children[o] \ {p}]
  /\ Stopped(o, Cardinality(children[o] \ {p})) \/ Started(o, Cardinality(children[o] \ {p}))
  /\ UNCHANGED <<inTable, kind, fd, maxchild, secount, given, waiting, stale, mainVars, sigVars, down>>

LEMMA ReapDoes ==
  ASSUME TypeOK, Owned, ClosedEmpty, NEW p \in Pids, Reap(p)
  PROVE  \E o \in Services : Reaped(p, o)
<1>1. /\ owner[p] \in Services /\ life[p] = "exited" /\ p \in children[owner[p]]
  BY DEF Reap, Owned
<1>2. Open(owner[p])
  BY <1>1 DEF ClosedEmpty
<1>3. Reaped(p, owner[p])
  BY <1>1, <1>2, Zenon DEF Reap, Reaped, Stopped, Started, Enable
<1> QED
  BY <1>1, <1>3

LEMMA ReapTypes ==
  ASSUME TypeOK, Owned, ClosedEmpty, SelectAssumption,
         \/ \E p \in Pids : Reap(p)
         \/ ReapCorrupt \/ ReapDone \/ RetryDone
         \/ \E s \in Services : Retry(s)
  PROVE  TypeOK'
<1> USE DEF TypeOK, given
<1>1. ASSUME NEW p \in Pids, Reap(p) PROVE TypeOK'
  <2>1. PICK o \in Services : Reaped(p, o)
    BY <1>1, ReapDoes
  <2>2. running' \in [Services -> BOOLEAN] /\ fd[o] \in Fds
    BY <2>1 DEF Reaped, Stopped, Started, Open
  <2>3. FdSet(fd[o], allsock) \subseteq allsock \cup {fd[o]}
    BY FdSetBetween
  <2>4. allsock' \subseteq Fds \cup {PipeFd}
    BY <2>1, <2>2, <2>3 DEF Reaped, Stopped, Started
  <2> QED
    BY <2>1, <2>2, <2>4, ZenonT(40) DEF Reaped, mainVars, sigVars
<1>2. CASE ReapCorrupt
  BY <1>2 DEF ReapCorrupt, Corrupt, svcVars, procVars, mainVars, sigVars
<1>3. CASE ReapDone
  BY <1>3 DEF ReapDone, svcVars, procVars, sigVars
<1>4. ASSUME NEW s \in Services, Retry(s) PROVE TypeOK'
  BY <1>4, SetupTypes DEF Retry, procVars
<1>5. CASE RetryDone
  BY <1>5 DEF RetryDone, svcVars, procVars, sigVars
<1> QED
  BY <1>1, <1>2, <1>3, <1>4, <1>5

LEMMA ConfigTypes ==
  ASSUME TypeOK, SelectAssumption,
         \/ ConfigAbort \/ ConfigSwap \/ ConfigDone
         \/ \E s \in Services : ConfigKeep(s) \/ ConfigSetup(s) \/ ConfigPurge(s)
  PROVE  TypeOK'
<1> USE DEF TypeOK, given
<1>1. CASE ConfigAbort
  BY <1>1 DEF ConfigAbort, svcVars, procVars, mainVars, sigVars
<1>2. ASSUME NEW s \in Services, Config(s)
      PROVE  /\ kind' \in [Services -> Kinds] /\ maxchild' \in [Services -> Limits \cup {1}]
             /\ todo' \subseteq Services /\ adjusted' \subseteq Services
             /\ UNCHANGED <<inTable, given, life, owner, mpc, msvc, mnew, readable, batch, signals, pipe, down>>
  <2>1. PICK k \in KindsOf(s) : \E n \in LimitsOf(k) :
          kind' = [kind EXCEPT ![s] = k] /\ maxchild' = [maxchild EXCEPT ![s] = n]
    BY <1>2 DEF Config
  <2>2. k \in Kinds /\ LimitsOf(k) \subseteq Limits \cup {1}
    BY <2>1, KindsAre DEF LimitsOf
  <2> QED
    BY <1>2, <2>1, <2>2 DEF Config, Kinds
<1>3. ASSUME NEW s \in Services, ConfigKeep(s) PROVE TypeOK'
  <2>1. fd[s] \in Fds
    BY <1>3 DEF ConfigKeep, Open
  <2>2. FdSet(fd[s], allsock) \subseteq allsock \cup {fd[s]}
    BY FdSetBetween
  <2>3. allsock' \subseteq Fds \cup {PipeFd}
    BY <1>3, <2>1, <2>2 DEF ConfigKeep
  <2>4. running' \in [Services -> BOOLEAN]
    BY <1>3 DEF ConfigKeep, Exceeds
  <2> QED
    BY <1>2, <1>3, <2>3, <2>4 DEF ConfigKeep, Kinds
<1>4. ASSUME NEW s \in Services, ConfigSetup(s) PROVE TypeOK'
  <2> DEFINE set == IF running[s] THEN allsock \ {fd[s]} ELSE allsock
  <2>1. Setup(s, set) \/ Setup(s, allsock)
    BY <1>4, Zenon DEF ConfigSetup
  <2>2. set \subseteq Fds \cup {PipeFd}
    OBVIOUS
  <2>3. /\ fd' \in [Services -> Fds \cup {NoFd}] /\ running' \in [Services -> BOOLEAN]
        /\ allsock' \subseteq Fds \cup {PipeFd} /\ timingout' \in BOOLEAN
    BY <2>1, <2>2, SetupTypes
  <2>4. /\ children' \in [Services -> SUBSET Pids] /\ stale' \subseteq Pids
        /\ waiting' \in [Services -> 0 .. MaxWaiting] /\ secount' \in [Services -> 0 .. MaxRate]
    BY <1>4 DEF ConfigSetup, SelectAssumption
  <2>5. Config(s)
    BY <1>4 DEF ConfigSetup
  <2> QED
    BY <1>2, <2>3, <2>4, <2>5 DEF Kinds
<1>5. CASE ConfigSwap
  BY <1>5 DEF ConfigSwap, procVars, sigVars
<1>6. ASSUME NEW s \in Services, ConfigPurge(s) PROVE TypeOK'
  <2>1. NoKind(s) \in Kinds
    BY KindsAre
  <2>2. CloseSep(s)
    BY <1>6 DEF ConfigPurge
  <2> QED
    BY <1>6, <2>1, <2>2, CloseSepTypes DEF ConfigPurge, Kinds, sigVars
<1>7. CASE ConfigDone
  <2>1. FdSet(PipeFd, allsock) \subseteq allsock \cup {PipeFd}
    BY FdSetBetween
  <2> QED
    BY <1>7, <2>1 DEF ConfigDone, svcVars, procVars
<1> QED
  BY <1>1, <1>3, <1>4, <1>5, <1>6, <1>7

LEMMA ServeTypes ==
  ASSUME TypeOK, SelectAssumption,
         \/ ScanDone \/ Read
         \/ \E s \in Services : \/ ServeNone(s) \/ ServeDatagram(s) \/ ServeForkFails(s)
                                 \/ ServeCorrupt(s) \/ ServeLooping(s)
                                 \/ \E p \in Pids : ServeChild(s, p)
  PROVE  TypeOK'
<1> USE DEF TypeOK, given
<1>1. \A s \in Services : Taken(s) => waiting' \in [Services -> 0 .. MaxWaiting]
  BY DEF Taken, SelectAssumption
<1>2. \A s \in Services : Counted(s) => secount' \in [Services -> 0 .. MaxRate]
  BY DEF Counted, SelectAssumption
<1>3. CASE ScanDone
  BY <1>3 DEF ScanDone, svcVars, procVars, sigVars
<1>4. CASE Read
  <2>1. waiting' = [waiting EXCEPT ![msvc] = waiting[msvc] - 1] /\ waiting[msvc] > 0
    BY <1>4 DEF Read
  <2>2. \A n \in 0 .. MaxWaiting : n > 0 => n - 1 \in 0 .. MaxWaiting
    BY DEF SelectAssumption
  <2>3. waiting' \in [Services -> 0 .. MaxWaiting]
    BY <2>1, <2>2
  <2> QED
    BY <1>4, <2>3 DEF Read, svcVars, procVars, sigVars
<1>5. ASSUME NEW s \in Services, ServeNone(s) PROVE TypeOK'
  BY <1>1, <1>5 DEF ServeNone, Serve, procVars
<1>6. ASSUME NEW s \in Services, ServeDatagram(s) PROVE TypeOK'
  BY <1>6 DEF ServeDatagram, Serve, procVars
<1>7. ASSUME NEW s \in Services, ServeForkFails(s) PROVE TypeOK'
  BY <1>1, <1>2, <1>7 DEF ServeForkFails, Forks, Serve, procVars
<1>8. ASSUME NEW s \in Services, ServeCorrupt(s) PROVE TypeOK'
  BY <1>8 DEF ServeCorrupt, Corrupt, svcVars, procVars, mainVars, sigVars
<1>9. ASSUME NEW s \in Services, ServeLooping(s) PROVE TypeOK'
  BY <1>9, CloseSepTypes DEF ServeLooping, Serve
<1>10. ASSUME NEW s \in Services, NEW p \in Pids, ServeChild(s, p) PROVE TypeOK'
  <2>1. Serve(s) /\ Taken(s) /\ Counted(s)
    BY <1>10 DEF ServeChild, Forks
  <2>2. /\ children' = [children EXCEPT ![s] = children[s] \cup {p}]
        /\ life' = [life EXCEPT ![p] = "running"] /\ owner' = [owner EXCEPT ![p] = s]
        /\ UNCHANGED <<fd, stale, mpc, msvc, timingout, down>>
        /\ \/ running' = [running EXCEPT ![s] = FALSE]
           \/ running' = running
        /\ \/ allsock' = allsock \ {fd[s]}
           \/ allsock' = allsock
    BY <1>10, Zenon DEF ServeChild
  <2>3. /\ children' \in [Services -> SUBSET Pids]
        /\ life' \in [Pids -> {"free", "running", "exited"}]
        /\ owner' \in [Pids -> Services \cup {NoService}]
    BY <2>2
  <2>4. running' \in [Services -> BOOLEAN] /\ allsock' \subseteq Fds \cup {PipeFd}
    BY <2>2
  <2> QED
    BY <1>1, <1>2, <2>1, <2>2, <2>3, <2>4 DEF Serve
<1> QED
  BY <1>3, <1>4, <1>5, <1>6, <1>7, <1>8, <1>9, <1>10

\* The type invariant is kept: every action that needs a socket or an owner finds it.
LEMMA TypeStep == ASSUME LoopInv, SelectAssumption, Next PROVE TypeOK'
<1>1. Up
  BY DEF Next, Environment, TimerFires, Main, Arrive, ServerTakes, ChildExit, Raise, Select,
     EndSignals,
         TakeChld, TakeAlrm, TakeTerm, TakeHup, TakeHupNoFile, Take, Reap, ReapCorrupt, ReapDone,
         RetryDone, Retry, ConfigAbort, ConfigSwap, ConfigDone, ConfigKeep, ConfigSetup, ConfigPurge,
         Config, ServeNone, ServeDatagram, ServeForkFails, ServeCorrupt, ServeLooping, ServeChild,
         Forks, Serve, ScanDone, Read
<1>2. TypeOK /\ Owned /\ ClosedEmpty
  BY <1>1 DEF LoopInv, Core
<1> QED
  BY <1>2, EnvironmentTypes, SignalTypes, ReapTypes, ConfigTypes, ServeTypes DEF Next, Main

-----------------------------------------------------------------------------
(* Steps on one service of the table.                                      *)

Table == WatchedOnly /\ WatchedAll /\ Distinct /\ Room /\ ClosedEmpty /\ Owned /\ Exact /\ StaleLives

\* Nothing but s changes, and nothing that the invariants of sockets and limits speak of.
Others(s) ==
  \A t \in Services \ {s} :
    fd'[t] = fd[t] /\ running'[t] = running[t] /\ maxchild'[t] = maxchild[t] /\ children'[t] = children[t]

\* The descriptor of s comes and goes with its running, and other descriptors stay.
Moves(s) ==
  /\ \A f \in allsock' : \/ f = PipeFd
                         \/ f \in allsock /\ (running[s] => f # fd[s])
                         \/ running'[s] /\ f = fd'[s]
  /\ allsock \ {fd[s]} \subseteq allsock' \/ allsock \subseteq allsock'
  /\ Cardinality(Fds) < FdMax => (running'[s] => fd'[s] \in allsock')

LEMMA SocketsKept ==
  ASSUME WatchedOnly, WatchedAll, Distinct, Room,
         NEW s \in Services, Others(s), Moves(s),
         \A t \in Services \ {s} : fd'[s] = fd[t] => fd'[s] = NoFd,
         running'[s] <=> fd'[s] # NoFd /\ ~Exceeds(maxchild'[s], Cardinality(children'[s]))
  PROVE  WatchedOnly' /\ WatchedAll' /\ Distinct' /\ Room'
<1>1. Distinct'
  BY DEF Distinct, Others, Open
<1>2. Room'
  BY DEF Room, Others, Open, Count
<1>3. ASSUME NEW f \in allsock', f # PipeFd PROVE \E t \in Services : running'[t] /\ fd'[t] = f
  <2>1. CASE running'[s] /\ f = fd'[s]
    BY <2>1
  <2>2. CASE f \in allsock /\ (running[s] => f # fd[s])
    <3>1. PICK t \in Services : running[t] /\ fd[t] = f
      BY <1>3, <2>2 DEF WatchedOnly
    <3>2. t # s
      BY <2>2, <3>1
    <3> QED
      BY <3>1, <3>2 DEF Others
  <2> QED
    BY <1>3, <2>1, <2>2 DEF Moves
<1>4. ASSUME Cardinality(Fds) < FdMax, NEW t \in Services, running'[t] PROVE fd'[t] \in allsock'
  <2>1. CASE t = s
    BY <1>4, <2>1 DEF Moves
  <2>2. CASE t # s
    <3>1. running[t] /\ fd'[t] = fd[t]
      BY <1>4, <2>2 DEF Others
    <3>2. fd[t] \in allsock /\ fd[t] # fd[s]
      BY <1>4, <2>2, <3>1 DEF WatchedAll, Room, Distinct
    <3> QED
      BY <3>1, <3>2 DEF Moves
  <2> QED
    BY <2>1, <2>2
<1> QED
  BY <1>1, <1>2, <1>3, <1>4 DEF WatchedOnly, WatchedAll

\* A limit that leaves no room for a set of children leaves none for a larger one.
LEMMA ExceedsGrows ==
  ASSUME SelectAssumption, NEW max \in Limits \cup {1}, NEW set \in SUBSET Pids, NEW p \in Pids
  PROVE  /\ Exceeds(max, Cardinality(set)) => Exceeds(max, Cardinality(set \cup {p}))
         /\ Exceeds(max, Cardinality(set \ {p})) => Exceeds(max, Cardinality(set))
<1>1. IsFiniteSet(set) /\ max \in Nat
  BY FS_Subset DEF SelectAssumption
<1>2. Cardinality(set) \in Nat /\ Cardinality(set \cup {p}) \in Nat /\ Cardinality(set \ {p}) \in Nat
  BY <1>1, FS_AddElement, FS_RemoveElement, FS_CardinalityType
<1>3. Cardinality(set) <= Cardinality(set \cup {p})
  BY <1>1, <1>2, FS_AddElement, FS_Subset, set \in SUBSET (set \cup {p})
<1>4. Cardinality(set \ {p}) <= Cardinality(set)
  BY <1>1, <1>2, FS_Subset, set \ {p} \in SUBSET set
<1> QED
  BY <1>1, <1>2, <1>3, <1>4 DEF Exceeds

LEMMA NoChildFits ==
  ASSUME SelectAssumption, NEW max \in Limits \cup {1} PROVE ~Exceeds(max, Cardinality({}))
<1>1. Cardinality({}) = 0 /\ max \in Nat
  BY FS_EmptySet DEF SelectAssumption
<1> QED
  BY <1>1 DEF Exceeds

\* close_sep() leaves a service without socket and children, and its processes stale.
LEMMA CloseSepTable ==
  ASSUME TypeOK, TypeOK', Table, NEW s \in Services, CloseSep(s), UNCHANGED <<life, owner>>,
         \A t \in Services \ {s} : maxchild'[t] = maxchild[t]
  PROVE  Table'
<1>1. Others(s)
  BY DEF CloseSep, Others, TypeOK
<1>2. fd'[s] = NoFd /\ running'[s] = FALSE /\ children'[s] = {} /\ stale' = stale \cup children[s]
  BY DEF CloseSep, TypeOK
<1>3. Moves(s)
  BY <1>2, Zenon DEF CloseSep, Moves
<1>4. WatchedOnly' /\ WatchedAll' /\ Distinct' /\ Room'
  BY <1>1, <1>2, <1>3, SocketsKept DEF Table
<1>5. ClosedEmpty'
  BY <1>1, <1>2 DEF ClosedEmpty, Others, Table, Open
<1>6. Exact' /\ StaleLives' /\ Owned'
  BY <1>1, <1>2 DEF Exact, StaleLives, Owned, Others, Table, TypeOK
<1> QED
  BY <1>4, <1>5, <1>6 DEF Table

\* setup(), of a service that has no socket or whose socket has been closed.
SetUpTo(s, f) ==
  /\ fd' = [fd EXCEPT ![s] = f] /\ running' = [running EXCEPT ![s] = TRUE]
  /\ f \in Fds /\ \A t \in Services \ {s} : fd[t] # f

NotSetUp(s) == fd' = [fd EXCEPT ![s] = NoFd] /\ running' = [running EXCEPT ![s] = FALSE]

LEMMA SetupTable ==
  ASSUME SelectAssumption, TypeOK, TypeOK', Table, NEW s \in Services, NEW set,
         set = IF running[s] THEN allsock \ {fd[s]} ELSE allsock,
         Setup(s, set), UNCHANGED <<life, owner>>,
         \A t \in Services \ {s} : maxchild'[t] = maxchild[t],
         children' = [children EXCEPT ![s] = {}], stale' = stale \cup children[s]
  PROVE  Table'
<1>1. /\ children'[s] = {} /\ \A t \in Services \ {s} : children'[t] = children[t]
      /\ set \in SUBSET (Fds \cup {PipeFd}) /\ maxchild'[s] \in Limits \cup {1}
  BY DEF TypeOK
<1>2. WatchedOnly' /\ WatchedAll' /\ Distinct' /\ Room' /\ Others(s)
  <2>1. ASSUME NEW f \in Fds, SetUpTo(s, f), allsock' = FdSet(f, set)
        PROVE  WatchedOnly' /\ WatchedAll' /\ Distinct' /\ Room' /\ Others(s)
    <3>1. fd'[s] = f /\ running'[s] /\ f # NoFd
      BY <2>1 DEF SetUpTo, TypeOK, SelectAssumption
    <3>2. Others(s)
      BY <1>1, <2>1 DEF SetUpTo, Others, TypeOK
    <3>3. set \subseteq allsock' /\ allsock' \subseteq set \cup {f}
      BY <2>1, FdSetBetween
    <3>4. Cardinality(Fds) < FdMax => f \in allsock'
      BY <1>1, <2>1, FdSetAdds
    <3>5. Moves(s)
      BY <3>1, <3>3, <3>4 DEF Moves
    <3>6. \A t \in Services \ {s} : fd'[s] # fd[t]
      BY <2>1, <3>1 DEF SetUpTo
    <3>7. ~Exceeds(maxchild'[s], Cardinality(children'[s]))
      BY <1>1, NoChildFits
    <3> QED
      BY <3>1, <3>2, <3>5, <3>6, <3>7, SocketsKept DEF Table
  <2>2. ASSUME NotSetUp(s), allsock' = set
        PROVE  WatchedOnly' /\ WatchedAll' /\ Distinct' /\ Room' /\ Others(s)
    <3>1. fd'[s] = NoFd /\ running'[s] = FALSE
      BY <2>2 DEF NotSetUp, TypeOK
    <3>2. Others(s)
      BY <1>1, <2>2 DEF NotSetUp, Others, TypeOK
    <3>3. Moves(s)
      BY <2>2, <3>1 DEF Moves
    <3> QED
      BY <3>1, <3>2, <3>3, SocketsKept DEF Table
  <2> QED
    BY <2>1, <2>2 DEF Setup, SetUpTo, NotSetUp
<1>3. ClosedEmpty'
  BY <1>1, <1>2 DEF ClosedEmpty, Others, Table, Open
<1>4. Exact' /\ StaleLives' /\ Owned'
  BY <1>1 DEF Exact, StaleLives, Owned, Table, TypeOK
<1> QED
  BY <1>2, <1>3, <1>4 DEF Table

\* reapchild() takes a process off its service and starts it again when there is room.
LEMMA ReapTable ==
  ASSUME SelectAssumption, TypeOK, TypeOK', Table, NEW p \in Pids, Reap(p) PROVE Table'
<1>1. PICK s \in Services : Reaped(p, s)
  BY ReapDoes DEF Table
<1> DEFINE left == children[s] \ {p}
<1>2. /\ UNCHANGED <<fd, maxchild, stale>> /\ Open(s) /\ p \in children[s]
      /\ children'[s] = left /\ \A t \in Services \ {s} : children'[t] = children[t]
      /\ \A t \in Services \ {s} : running'[t] = running[t]
      /\ life' = [life EXCEPT ![p] = "free"] /\ owner' = [owner EXCEPT ![p] = NoService]
      /\ owner[p] = s /\ life[p] = "exited"
  BY <1>1 DEF Reaped, Stopped, Started, TypeOK
<1>3. Others(s)
  BY <1>2 DEF Others
<1>4. fd[s] \in Fds /\ maxchild[s] \in Limits \cup {1} /\ children[s] \in SUBSET Pids
  BY <1>2 DEF Open, TypeOK
<1>5. ClosedEmpty' /\ Exact' /\ StaleLives' /\ Owned'
  <2>1. ClosedEmpty'
    BY <1>2 DEF Table, ClosedEmpty, Open
  <2>2. Exact'
    BY <1>2 DEF Table, Exact, TypeOK
  <2>3. StaleLives' /\ Owned'
    BY <1>2 DEF Table, Exact, StaleLives, Owned, TypeOK
  <2> QED
    BY <2>1, <2>2, <2>3
<1>6. \A t \in Services \ {s} : fd'[s] = fd[t] => fd'[s] = NoFd
  BY <1>2 DEF Table, Distinct, Open
<1>7. CASE Stopped(s, Cardinality(left))
  <2>1. Exceeds(maxchild[s], Count(s)) /\ ~running[s] /\ running'[s] = running[s] /\ allsock' = allsock
    BY <1>4, <1>7, ExceedsGrows DEF Stopped, Count, Table, Room
  <2>2. Moves(s)
    BY <2>1 DEF Moves
  <2> QED
    BY <1>2, <1>3, <1>5, <1>6, <1>7, <2>1, <2>2, SocketsKept DEF Stopped, Table
<1>8. CASE Started(s, Cardinality(left))
  <2>1. /\ running'[s] /\ ~Exceeds(maxchild[s], Cardinality(left))
        /\ allsock' = IF running[s] THEN allsock ELSE FdSet(fd[s], allsock)
    BY <1>8, <1>2 DEF Started, TypeOK
  <2>2. Cardinality(Fds) < FdMax => fd[s] \in FdSet(fd[s], allsock)
    BY <1>4, FdSetAdds DEF TypeOK
  <2>3. allsock \subseteq FdSet(fd[s], allsock) /\ FdSet(fd[s], allsock) \subseteq allsock \cup {fd[s]}
    BY FdSetBetween
  <2>4. Cardinality(Fds) < FdMax => (running[s] => fd[s] \in allsock)
    BY DEF Table, WatchedAll
  <2>5. Moves(s)
    BY <1>2, <2>1, <2>2, <2>3, <2>4 DEF Moves
  <2> QED
    BY <1>2, <1>3, <1>5, <1>6, <2>1, <2>5, SocketsKept DEF Table, Open
<1> QED
  BY <1>1, <1>7, <1>8 DEF Reaped

\* addchild() counts a process, and stops its service at the limit.
LEMMA ServeChildTable ==
  ASSUME SelectAssumption, TypeOK, TypeOK', Table, SeenRuns,
         NEW s \in Services, NEW p \in Pids, ServeChild(s, p)
  PROVE  Table'
<1> DEFINE more == children[s] \cup {p}
<1>1. /\ UNCHANGED <<fd, maxchild, stale>> /\ Open(s) /\ life[p] = "free"
      /\ children' = [children EXCEPT ![s] = more]
      /\ life' = [life EXCEPT ![p] = "running"] /\ owner' = [owner EXCEPT ![p] = s]
  BY DEF ServeChild, Forks, Serve, SeenRuns
<1>2. children'[s] = more /\ \A t \in Services \ {s} : children'[t] = children[t]
  BY <1>1 DEF TypeOK
<1>3. IF Exceeds(maxchild[s], Cardinality(more))
      THEN /\ running' = [running EXCEPT ![s] = FALSE]
           /\ allsock' = IF running[s] THEN allsock \ {fd[s]} ELSE allsock
      ELSE UNCHANGED <<running, allsock>>
  BY <1>2 DEF ServeChild
<1>4. Others(s)
  BY <1>1, <1>2, <1>3 DEF Others, TypeOK
<1>5. maxchild[s] \in Limits \cup {1} /\ children[s] \in SUBSET Pids
  BY DEF TypeOK
<1>6. running'[s] <=> ~Exceeds(maxchild[s], Cardinality(more))
  <2>1. CASE Exceeds(maxchild[s], Cardinality(more))
    BY <1>3, <2>1 DEF TypeOK
  <2>2. CASE ~Exceeds(maxchild[s], Cardinality(more))
    <3>1. ~Exceeds(maxchild[s], Count(s))
      BY <1>5, <2>2, ExceedsGrows DEF Count
    <3> QED
      BY <1>1, <1>3, <2>2, <3>1 DEF Table, Room
  <2> QED
    BY <2>1, <2>2
<1>7. Moves(s)
  <2>1. CASE Exceeds(maxchild[s], Cardinality(more))
    BY <1>1, <1>3, <1>6, <2>1 DEF Moves
  <2>2. CASE ~Exceeds(maxchild[s], Cardinality(more))
    BY <1>1, <1>3, <1>6, <2>2 DEF Moves, Table, WatchedAll
  <2> QED
    BY <2>1, <2>2
<1>8. \A t \in Services \ {s} : fd'[s] = fd[t] => fd'[s] = NoFd
  BY <1>1 DEF Table, Distinct, Open
<1>9. WatchedOnly' /\ WatchedAll' /\ Distinct' /\ Room'
  BY <1>1, <1>2, <1>4, <1>6, <1>7, <1>8, SocketsKept DEF Table, Open
<1>10. ClosedEmpty'
  BY <1>1, <1>2 DEF Table, ClosedEmpty, Open
<1>11. Exact' /\ StaleLives' /\ Owned'
  BY <1>1, <1>2 DEF Table, Exact, StaleLives, Owned, TypeOK
<1> QED
  BY <1>9, <1>10, <1>11 DEF Table

\* config() starts and stops a service that stays open by its new limit.
LEMMA ConfigKeepTable ==
  ASSUME SelectAssumption, TypeOK, TypeOK', Table, NEW s \in Services, ConfigKeep(s) PROVE Table'
<1>1. /\ UNCHANGED <<fd, stale, children, life, owner>> /\ Open(s)
      /\ running' = [running EXCEPT ![s] = ~Exceeds(maxchild'[s], Count(s))]
      /\ allsock' = IF running'[s] = running[s] THEN allsock
                    ELSE IF running[s] THEN allsock \ {fd[s]} ELSE FdSet(fd[s], allsock)
  BY DEF ConfigKeep, Config
<1>2. \A t \in Services \ {s} : maxchild'[t] = maxchild[t]
  BY DEF ConfigKeep, Config, TypeOK
<1>3. running'[s] <=> ~Exceeds(maxchild'[s], Count(s))
  BY <1>1 DEF TypeOK
<1>4. Others(s)
  BY <1>1, <1>2 DEF Others, TypeOK
<1>5. fd[s] \in Fds
  BY <1>1 DEF Open, TypeOK
<1>6. /\ allsock \subseteq FdSet(fd[s], allsock) /\ FdSet(fd[s], allsock) \subseteq allsock \cup {fd[s]}
      /\ Cardinality(Fds) < FdMax => fd[s] \in FdSet(fd[s], allsock)
  BY <1>5, FdSetBetween, FdSetAdds DEF TypeOK
<1>7. Cardinality(Fds) < FdMax => (running[s] => fd[s] \in allsock)
  BY DEF Table, WatchedAll
<1>8. running[s] \in BOOLEAN /\ running'[s] \in BOOLEAN
  BY DEF TypeOK
<1>9. Moves(s)
  <2>1. CASE running'[s] /\ running[s]
    BY <1>1, <1>7, <2>1 DEF Moves
  <2>2. CASE ~running'[s] /\ ~running[s]
    BY <1>1, <1>8, <2>2 DEF Moves
  <2>3. CASE running'[s] /\ ~running[s]
    BY <1>1, <1>6, <2>3 DEF Moves
  <2>4. CASE ~running'[s] /\ running[s]
    BY <1>1, <2>4 DEF Moves
  <2> QED
    BY <2>1, <2>2, <2>3, <2>4
<1>10. \A t \in Services \ {s} : fd'[s] = fd[t] => fd'[s] = NoFd
  BY <1>1 DEF Table, Distinct, Open
<1>11. WatchedOnly' /\ WatchedAll' /\ Distinct' /\ Room'
  BY <1>1, <1>3, <1>4, <1>9, <1>10, SocketsKept DEF Table, Open, Count
<1> QED
  BY <1>1, <1>11 DEF Table, ClosedEmpty, Open, Exact, StaleLives, Owned

\* config() closes and sets up a service that is reset, has no socket, or is new.
LEMMA ConfigSetupTable ==
  ASSUME SelectAssumption, TypeOK, TypeOK', Table, Listed, NEW s \in Services, ConfigSetup(s)
  PROVE  Table'
<1> DEFINE set == IF running[s] THEN allsock \ {fd[s]} ELSE allsock
<1>1. UNCHANGED <<life, owner>> /\ \A t \in Services \ {s} : maxchild'[t] = maxchild[t]
  BY DEF ConfigSetup, Config, TypeOK
<1>2. CASE s \in inTable /\ Open(s)
  <2>1. Setup(s, set) /\ children' = [children EXCEPT ![s] = {}] /\ stale' = stale \cup children[s]
    BY <1>2 DEF ConfigSetup
  <2> QED
    BY <1>1, <2>1, SetupTable
<1>3. CASE ~(s \in inTable /\ Open(s))
  <2>1. Setup(s, allsock) /\ UNCHANGED <<children, stale>> /\ mpc = "config" /\ s \in todo
    BY <1>3 DEF ConfigSetup, Config
  <2>2. ~Open(s)
    BY <1>3, <2>1 DEF Listed
  <2>3. children[s] = {} /\ ~running[s]
    BY <2>2 DEF Table, ClosedEmpty, Room
  <2>4. /\ children' = [children EXCEPT ![s] = {}] /\ stale' = stale \cup children[s]
        /\ Setup(s, set)
    BY <2>1, <2>3 DEF TypeOK
  <2> QED
    BY <1>1, <2>4, SetupTable
<1> QED
  BY <1>2, <1>3

\* retry() sets up what has no socket.
LEMMA RetryTable ==
  ASSUME SelectAssumption, TypeOK, TypeOK', Table, NEW s \in Services, Retry(s) PROVE Table'
<1> DEFINE set == IF running[s] THEN allsock \ {fd[s]} ELSE allsock
<1>1. UNCHANGED <<maxchild, children, life, owner, stale>>
  BY DEF Retry, procVars
<1>2. CASE Open(s)
  BY <1>1, <1>2 DEF Retry, Table, WatchedOnly, WatchedAll, Distinct, Room, ClosedEmpty, Owned,
     Exact,
                    StaleLives, Open, Count
<1>3. CASE ~Open(s)
  <2>1. Setup(s, allsock)
    BY <1>3 DEF Retry
  <2>2. children[s] = {} /\ ~running[s]
    BY <1>3 DEF Table, ClosedEmpty, Room
  <2>3. /\ children' = [children EXCEPT ![s] = {}] /\ stale' = stale \cup children[s]
        /\ Setup(s, set)
    BY <1>1, <2>1, <2>2 DEF TypeOK
  <2> QED
    BY <1>1, <2>3, SetupTable
<1> QED
  BY <1>2, <1>3

-----------------------------------------------------------------------------
(* Every step.                                                             *)

\* Steps that leave sockets, limits and processes alone.
Quiet == UNCHANGED <<fd, running, maxchild, children, life, owner, stale, allsock>>

Writes ==
  \/ \E p \in Pids : ChildExit(p) \/ Reap(p)
  \/ \E s \in Services : Retry(s) \/ ConfigKeep(s) \/ ConfigSetup(s) \/ ConfigPurge(s) \/ ServeLooping(s)
  \/ \E s \in Services, p \in Pids : ServeChild(s, p)
  \/ ConfigDone

LEMMA StepKinds == ASSUME Next PROVE Up /\ (Quiet \/ Writes \/ ~Up')
<1>1. CASE Environment \/ TimerFires
  <2> USE DEF Quiet, svcVars, procVars
  <2>1. ASSUME NEW s \in Services, Arrive(s) PROVE Up /\ Quiet
    BY <2>1 DEF Arrive
  <2>2. ASSUME NEW p \in Pids, ServerTakes(p) PROVE Up /\ Quiet
    BY <2>2 DEF ServerTakes
  <2>3. ASSUME NEW p \in Pids, ChildExit(p) PROVE Up /\ Writes
    BY <2>3 DEF ChildExit, Writes
  <2>4. ASSUME NEW sig, Raise(sig) PROVE Up /\ Quiet
    BY <2>4 DEF Raise
  <2>5. CASE TimerFires
    BY <2>5 DEF TimerFires
  <2> QED
    BY <1>1, <2>1, <2>2, <2>3, <2>4, <2>5 DEF Environment
<1>2. CASE Select \/ EndSignals \/ TakeChld \/ TakeAlrm \/ TakeHup \/ TakeHupNoFile
  BY <1>2 DEF Quiet, svcVars, procVars, Select, EndSignals, TakeChld, TakeAlrm, TakeHup,
     TakeHupNoFile, Take
<1>3. CASE TakeTerm \/ ReapCorrupt \/ ConfigAbort \/ \E s \in Services : ServeCorrupt(s)
  BY <1>3 DEF TakeTerm, Take, ReapCorrupt, ConfigAbort, ServeCorrupt, Corrupt, Up
<1>4. CASE ReapDone \/ RetryDone \/ ConfigSwap \/ ScanDone \/ Read
  BY <1>4 DEF Quiet, svcVars, procVars, ReapDone, RetryDone, ConfigSwap, ScanDone, Read
<1>5. CASE ConfigDone \/ \E p \in Pids : Reap(p)
  BY <1>5 DEF Writes, ConfigDone, Reap
<1>6. ASSUME NEW s \in Services, Retry(s) \/ ConfigKeep(s) \/ ConfigSetup(s) \/ ConfigPurge(s)
      PROVE  Up /\ Writes
  <2>1. Up
    BY <1>6 DEF Retry, ConfigKeep, ConfigSetup, ConfigPurge, Config
  <2> QED
    BY <1>6, <2>1 DEF Writes
<1>7. ASSUME NEW s \in Services, ServeNone(s) \/ ServeDatagram(s) \/ ServeForkFails(s) PROVE Up /\ Quiet
  BY <1>7 DEF Quiet, procVars, ServeNone, ServeDatagram, ServeForkFails, Forks, Serve
<1>8. ASSUME NEW s \in Services, ServeLooping(s) \/ \E p \in Pids : ServeChild(s, p)
      PROVE  Up /\ Writes
  <2>1. Up
    BY <1>8 DEF ServeLooping, ServeChild, Forks, Serve
  <2> QED
    BY <1>8, <2>1 DEF Writes
<1> QED
  BY <1>1, <1>2, <1>3, <1>4, <1>5, <1>6, <1>7, <1>8 DEF Next, Main

LEMMA TableStep ==
  ASSUME SelectAssumption, LoopInv, TypeOK', Next, Up' PROVE Table'
<1>1. Up /\ TypeOK /\ Table /\ Listed /\ SeenRuns
  BY StepKinds DEF LoopInv, Core, Table
<1>2. CASE Quiet
  BY <1>1, <1>2 DEF Quiet, Table, WatchedOnly, WatchedAll, Distinct, Room, ClosedEmpty, Owned,
     Exact,
                    StaleLives, Open, Count
<1>3. ASSUME NEW p \in Pids, ChildExit(p) PROVE Table'
  <2>1. /\ UNCHANGED <<fd, running, maxchild, children, owner, stale, allsock>>
        /\ life[p] = "running" /\ life' = [life EXCEPT ![p] = "exited"]
    BY <1>3 DEF ChildExit, svcVars
  <2>2. \A q \in Pids : life'[q] # "free" <=> life[q] # "free"
    BY <1>1, <2>1 DEF TypeOK
  <2>3. Owned' /\ Exact' /\ StaleLives'
    BY <1>1, <2>1, <2>2 DEF Table, Owned, Exact, StaleLives, TypeOK
  <2> QED
    BY <1>1, <2>1, <2>3 DEF Table, WatchedOnly, WatchedAll, Distinct, Room, ClosedEmpty, Open,
       Count
<1>4. ASSUME NEW s \in Services, ConfigPurge(s) \/ ServeLooping(s) PROVE Table'
  <2>1. /\ CloseSep(s) /\ UNCHANGED <<life, owner>>
        /\ \A t \in Services \ {s} : maxchild'[t] = maxchild[t]
    BY <1>1, <1>4 DEF ConfigPurge, ServeLooping, Serve, TypeOK
  <2> QED
    BY <1>1, <2>1, CloseSepTable
<1>5. CASE ConfigDone
  <2>1. /\ UNCHANGED <<fd, running, maxchild, children, life, owner, stale>>
        /\ allsock' = allsock \/ allsock' = FdSet(PipeFd, allsock)
    BY <1>5 DEF ConfigDone, svcVars, procVars
  <2>2. allsock \subseteq allsock' /\ allsock' \subseteq allsock \cup {PipeFd}
    BY <2>1, FdSetBetween
  <2> QED
    BY <1>1, <2>1, <2>2 DEF Table, WatchedOnly, WatchedAll, Distinct, Room, ClosedEmpty, Owned,
       Exact,
                            StaleLives, Open, Count
<1> QED
  BY <1>1, <1>2, <1>3, <1>4, <1>5, StepKinds, ReapTable, RetryTable, ConfigKeepTable,
     ConfigSetupTable,
     ServeChildTable DEF Writes

\* A step that neither opens a socket, nor stops a service that stays open, nor moves the
\* thread, keeps what the thread relies on.
LEMMA PhaseKept ==
  ASSUME TypeOK, Listed, SeenRuns,
         UNCHANGED <<inTable, mnew, todo, mpc, readable, adjusted>>, UNCHANGED fd,
         \A s \in Services : running[s] => running'[s]
  PROVE  Listed' /\ SeenRuns'
<1>1. Listed'
  BY DEF Listed, Open
<1>2. mpc' \in {"scan", "read"} => \A s \in todo' : Open(s)' /\ (s \in adjusted' \/ running'[s])
  BY TypeOK DEF SeenRuns, Open, TypeOK
<1>3. mpc' \in {"signals", "reap", "retry", "config", "purge"} =>
        \A s \in Services : Open(s)' /\ fd'[s] \in readable' => s \in adjusted' \/ running'[s]
  BY DEF SeenRuns, Open
<1> QED
  BY <1>1, <1>2, <1>3 DEF SeenRuns

\* A round begins with what select() has seen.
LEMMA SelectPhase ==
  ASSUME SelectAssumption, TypeOK, Table, Listed, Select PROVE Listed' /\ SeenRuns'
<1>1. /\ readable' \subseteq allsock /\ mpc = "select" /\ mpc' = "signals"
      /\ UNCHANGED <<inTable, fd, running, todo, mnew, adjusted>>
  BY DEF Select, svcVars
<1>2. ASSUME NEW s \in Services, Open(s), fd[s] \in readable' PROVE running[s]
  <2>1. fd[s] \in allsock /\ fd[s] # PipeFd
    BY <1>1, <1>2 DEF Open, TypeOK, SelectAssumption
  <2>2. PICK t \in Services : running[t] /\ fd[t] = fd[s]
    BY <2>1 DEF Table, WatchedOnly
  <2>3. t = s
    BY <1>2, <2>2 DEF Table, Distinct
  <2> QED
    BY <2>2, <2>3
<1> QED
  BY <1>1, <1>2 DEF Listed, SeenRuns, Open

\* The signals are taken, and then what was readable is served.
LEMMA SignalPhase ==
  ASSUME TypeOK, Listed, SeenRuns,
         EndSignals \/ TakeChld \/ TakeAlrm \/ TakeHup \/ TakeHupNoFile \/ ReapDone \/ RetryDone
  PROVE  Listed' /\ SeenRuns'
<1> USE DEF Listed, SeenRuns, Open, Take, svcVars
<1>1. CASE EndSignals
  <2>1. /\ mpc = "signals" /\ mpc' = "scan" /\ UNCHANGED <<inTable, fd, running, adjusted, mnew>>
        /\ todo' \subseteq inTable /\ \A s \in todo' : Wanted(s)
    BY <1>1 DEF EndSignals
  <2>2. \A s \in todo' : Open(s)' /\ (s \in adjusted' \/ running'[s])
    BY <2>1 DEF Wanted, TypeOK
  <2> QED
    BY <2>1, <2>2
<1>2. CASE TakeChld \/ TakeHupNoFile
  BY <1>2 DEF TakeChld, TakeHupNoFile
<1>3. CASE TakeAlrm
  BY <1>3 DEF TakeAlrm
<1>4. CASE TakeHup
  BY <1>4 DEF TakeHup
<1>5. CASE ReapDone \/ RetryDone
  BY <1>5 DEF ReapDone, RetryDone
<1> QED
  BY <1>1, <1>2, <1>3, <1>4, <1>5

\* While the table is exchanged or retried, what is opened is listed and adjusted.
LEMMA ConfigPhase ==
  ASSUME TypeOK, TypeOK', Listed, SeenRuns,
         \/ ConfigSwap \/ ConfigDone
         \/ \E s \in Services : Retry(s) \/ ConfigKeep(s) \/ ConfigSetup(s) \/ ConfigPurge(s)
  PROVE  Listed' /\ SeenRuns'
<1>1. CASE ConfigSwap
  BY <1>1 DEF ConfigSwap, Listed, SeenRuns, Open
<1>2. CASE ConfigDone
  BY <1>2 DEF ConfigDone, Listed, SeenRuns, Open, svcVars
<1>3. ASSUME NEW s \in Services, ConfigPurge(s) PROVE Listed' /\ SeenRuns'
  <2>1. /\ mpc = "purge" /\ s \in todo /\ todo' = todo \ {s}
        /\ UNCHANGED <<inTable, mpc, mnew, readable, adjusted>>
        /\ fd' = [fd EXCEPT ![s] = NoFd] /\ running' = [running EXCEPT ![s] = FALSE]
    BY <1>3 DEF ConfigPurge, CloseSep
  <2>2. fd'[s] = NoFd /\ \A t \in Services \ {s} : fd'[t] = fd[t] /\ running'[t] = running[t]
    BY <2>1 DEF TypeOK
  <2> QED
    BY <2>1, <2>2 DEF Listed, SeenRuns, Open
<1>4. ASSUME NEW s \in Services, Retry(s) \/ ConfigKeep(s) \/ ConfigSetup(s)
      PROVE  Listed' /\ SeenRuns'
  <2>1. /\ mpc \in {"retry", "config"} /\ s \in todo /\ todo' = todo \ {s}
        /\ UNCHANGED <<inTable, mpc, mnew, readable>>
    BY <1>4 DEF Retry, ConfigKeep, ConfigSetup, Config
  <2>2. \A t \in Services \ {s} : fd'[t] = fd[t] /\ running'[t] = running[t]
    BY <1>4, ZenonT(40) DEF Retry, ConfigKeep, ConfigSetup, Setup, TypeOK
  <2>3. \/ adjusted' = adjusted \cup {s}
        \/ adjusted' = adjusted /\ fd'[s] = fd[s] /\ running'[s] = running[s]
    BY <1>4 DEF Retry, ConfigKeep, ConfigSetup, Config
  <2>4. Listed'
    <3>1. CASE mpc = "retry"
      BY <2>1, <2>2, <3>1 DEF Listed, Open, TypeOK
    <3>2. CASE mpc = "config"
      BY <2>1, <2>2, <3>2 DEF Listed, Open, TypeOK
    <3> QED
      BY <2>1, <3>1, <3>2
  <2>5. ASSUME NEW t \in Services, Open(t)', fd'[t] \in readable' PROVE t \in adjusted' \/ running'[t]
    <3>1. CASE t = s /\ adjusted' = adjusted \cup {s}
      BY <3>1
    <3>2. CASE fd'[t] = fd[t] /\ running'[t] = running[t]
      BY <2>1, <2>3, <2>5, <3>2 DEF SeenRuns, Open
    <3> QED
      BY <2>2, <2>3, <3>1, <3>2
  <2> QED
    BY <2>1, <2>4, <2>5 DEF SeenRuns
<1> QED
  BY <1>1, <1>2, <1>3, <1>4

\* Serving one service leaves the others of the round as they are.
LEMMA ServePhase ==
  ASSUME TypeOK, Listed, SeenRuns,
         \/ ScanDone \/ Read
         \/ \E s \in Services : \/ ServeNone(s) \/ ServeDatagram(s) \/ ServeForkFails(s) \/ ServeLooping(s)
                                 \/ \E p \in Pids : ServeChild(s, p)
  PROVE  Listed' /\ SeenRuns'
<1>1. CASE ScanDone
  BY <1>1 DEF ScanDone, Listed, SeenRuns, Open, svcVars
<1>2. CASE Read
  BY <1>2 DEF Read, Listed, SeenRuns, Open, svcVars
<1>3. ASSUME NEW s \in Services,
             \/ ServeNone(s) \/ ServeDatagram(s) \/ ServeForkFails(s) \/ ServeLooping(s)
             \/ \E p \in Pids : ServeChild(s, p)
      PROVE  Listed' /\ SeenRuns'
  <2>1. Serve(s) /\ mpc' \in {"scan", "read"}
    BY <1>3 DEF ServeNone, ServeDatagram, ServeForkFails, ServeLooping, ServeChild, Forks, Serve
  <2>2. /\ mpc = "scan" /\ s \in todo /\ todo' = todo \ {s}
        /\ UNCHANGED <<inTable, mnew, readable, adjusted>>
    BY <2>1 DEF Serve
  <2>3. \/ UNCHANGED fd
        \/ fd' = [fd EXCEPT ![s] = NoFd]
    BY <1>3, Zenon DEF ServeNone, ServeDatagram, ServeForkFails, ServeLooping, ServeChild,
       CloseSep
  <2>4. \/ UNCHANGED running
        \/ running' = [running EXCEPT ![s] = FALSE]
    BY <1>3, Zenon DEF ServeNone, ServeDatagram, ServeForkFails, ServeLooping, ServeChild,
       CloseSep
  <2>5. \A t \in Services \ {s} : fd'[t] = fd[t] /\ running'[t] = running[t]
    BY <2>3, <2>4 DEF TypeOK
  <2>6. fd'[s] = fd[s] \/ fd'[s] = NoFd
    BY <2>3 DEF TypeOK
  <2> QED
    <3>1. Listed'
      BY <2>1, <2>2, <2>5, <2>6 DEF Listed, Open
    <3>2. ASSUME NEW t \in todo' PROVE Open(t)' /\ (t \in adjusted' \/ running'[t])
      <4>1. t \in todo /\ t \in Services /\ t # s
        BY <2>2, <3>2 DEF TypeOK
      <4> QED
        BY <2>2, <2>5, <4>1 DEF SeenRuns, Open
    <3> QED
      BY <2>1, <3>1, <3>2 DEF SeenRuns
<1> QED
  BY <1>1, <1>2, <1>3

LEMMA PhaseStep ==
  ASSUME SelectAssumption, LoopInv, TypeOK', Next, Up' PROVE Listed' /\ SeenRuns'
<1>1. Up /\ TypeOK /\ Table /\ Listed /\ SeenRuns
  BY StepKinds DEF LoopInv, Core, Table
<1>2. CASE Environment \/ TimerFires
  <2>1. UNCHANGED <<inTable, mnew, todo, mpc, readable, adjusted>> /\ UNCHANGED <<fd, running>>
    BY <1>2 DEF Environment, TimerFires, Arrive, ServerTakes, ChildExit, Raise, svcVars,
       mainVars
  <2> QED
    BY <1>1, <2>1, PhaseKept
<1>3. ASSUME NEW p \in Pids, Reap(p) PROVE Listed' /\ SeenRuns'
  <2>1. PICK s \in Services : Reaped(p, s)
    BY <1>1, <1>3, ReapDoes DEF Table
  <2>2. /\ UNCHANGED <<inTable, mnew, todo, mpc, readable, adjusted>> /\ UNCHANGED fd
        /\ \A t \in Services : running[t] => running'[t]
    BY <1>1, <2>1 DEF Reaped, Stopped, Started, mainVars, TypeOK
  <2> QED
    BY <1>1, <2>2, PhaseKept
<1>4. CASE TakeTerm \/ ReapCorrupt \/ ConfigAbort \/ \E s \in Services : ServeCorrupt(s)
  BY <1>4 DEF TakeTerm, Take, ReapCorrupt, ConfigAbort, ServeCorrupt, Corrupt, Up
<1> QED
  BY <1>1, <1>2, <1>3, <1>4, SelectPhase, SignalPhase, ConfigPhase, ServePhase DEF Next, Main

-----------------------------------------------------------------------------
(* The invariant holds in every behaviour.                                 *)

LEMMA LoopInit == ASSUME SelectAssumption PROVE Init => LoopInv
<1> SUFFICES ASSUME Init PROVE LoopInv
  OBVIOUS
<1>1. TypeOK
  BY TypeInit
<1>2. \A s \in Services : ~Open(s) /\ ~running[s] /\ children[s] = {}
  BY DEF Init, Open
<1>3. \A p \in Pids : life[p] = "free"
  BY DEF Init
<1>4. allsock = {} /\ stale = {} /\ mpc = "config" /\ todo = mnew
  BY DEF Init
<1>5. WatchedOnly /\ WatchedAll /\ Distinct /\ Room /\ ClosedEmpty
  BY <1>2, <1>4 DEF WatchedOnly, WatchedAll, Distinct, Room, ClosedEmpty
<1>6. Owned /\ Exact /\ StaleLives
  BY <1>2, <1>3, <1>4 DEF Owned, Exact, StaleLives
<1>7. Listed /\ SeenRuns
  BY <1>2, <1>4 DEF Listed, SeenRuns
<1> QED
  BY <1>1, <1>5, <1>6, <1>7 DEF LoopInv, Core

LEMMA LoopStep == ASSUME SelectAssumption PROVE LoopInv /\ [Next]_vars => LoopInv'
<1> SUFFICES ASSUME LoopInv, [Next]_vars PROVE LoopInv'
  OBVIOUS
<1>1. CASE Next
  <2>1. TypeOK'
    BY <1>1, TypeStep
  <2>2. ASSUME Up' PROVE Core'
    BY <1>1, <2>1, <2>2, TableStep, PhaseStep DEF Table, Core
  <2> QED
    BY <2>1, <2>2 DEF LoopInv
<1>2. CASE UNCHANGED vars
  <2>1. UNCHANGED <<toomany, listener, hazards>> /\ UNCHANGED <<waiting, allsock, down>>
    BY <1>2 DEF vars, given
  <2>2. UNCHANGED <<inTable, kind, fd, running, maxchild, secount, children>> /\ UNCHANGED <<life, owner, stale>>
    BY <1>2 DEF vars, svcVars, procVars
  <2>3. UNCHANGED <<mpc, msvc, todo, mnew, readable, batch, adjusted>> /\ UNCHANGED <<signals, pipe, timingout>>
    BY <1>2 DEF vars, mainVars, sigVars
  <2>4. TypeOK'
    BY <2>1, <2>2, <2>3 DEF LoopInv, TypeOK
  <2>5. Up => Table'
    BY <2>1, <2>2 DEF LoopInv, Core, Table, WatchedOnly, WatchedAll, Distinct, Room,
       ClosedEmpty, Owned,
                      Exact, StaleLives, Open, Count
  <2>6. Up => Listed' /\ SeenRuns'
    BY <2>2, <2>3, PhaseKept DEF LoopInv, Core
  <2> QED
    BY <2>1, <2>4, <2>5, <2>6 DEF LoopInv, Core, Table, Up
<1> QED
  BY <1>1, <1>2

\* The variables of the loop keep their types, for any services, processes, descriptors
\* and limits.
THEOREM TypeCorrect == ASSUME SelectAssumption PROVE Spec => []TypeOK
<1>1. LoopInv => TypeOK
  BY DEF LoopInv
<1> QED
  BY <1>1, LoopInit, LoopStep, PTL DEF Spec

LEMMA LoopIsRight == ASSUME SelectAssumption PROVE LoopInv => SelectRight
<1> SUFFICES ASSUME LoopInv PROVE SelectRight
  OBVIOUS
<1>1. Up => RunsWithRoom /\ ChildrenExact
  BY DEF LoopInv, Core, Room, Exact, RunsWithRoom, ChildrenExact
<1>2. ~Up => RunsWithRoom /\ ChildrenExact
  BY DEF RunsWithRoom, ChildrenExact
<1>3. ASSUME Up, Cardinality(Fds) < FdMax
      PROVE  allsock \ {PipeFd} = {fd[s] : s \in {t \in Services : running[t]}}
  <2>1. \A s \in Services : running[s] => fd[s] \in allsock /\ fd[s] # PipeFd
    BY <1>3 DEF LoopInv, Core, WatchedAll, Room, Open, TypeOK, SelectAssumption
  <2>2. \A f \in allsock \ {PipeFd} : \E s \in Services : running[s] /\ fd[s] = f
    BY <1>3 DEF LoopInv, Core, WatchedOnly
  <2> QED
    BY <2>1, <2>2
<1> QED
  BY <1>1, <1>2, <1>3 DEF SelectRight, WatchedRight

\* select() watches the running services and nothing else, a service runs exactly while it
\* has a socket and room for a child, and its children are its unreaped processes: through
\* every exit, timer, reload and accept.
THEOREM SelectIsRight == ASSUME SelectAssumption PROVE Spec => []SelectRight
BY LoopIsRight, LoopInit, LoopStep, PTL DEF Spec

\* Processes are added to a service by its own turn only.
LEMMA OnlyServeAdds ==
  ASSUME TypeOK, Owned, ClosedEmpty, Next, NEW s \in Services, ~(children'[s] \subseteq children[s])
  PROVE  mpc = "scan" /\ s \in todo
<1>1. ASSUME UNCHANGED children PROVE FALSE
  BY <1>1
<1>2. ASSUME NEW t \in Services, children' = [children EXCEPT ![t] = {}] PROVE FALSE
  BY <1>2 DEF TypeOK
<1>3. ~(Environment \/ TimerFires)
  BY <1>1 DEF Environment, TimerFires, Arrive, ServerTakes, ChildExit, Raise, svcVars
<1>4. ~(Select \/ EndSignals \/ TakeChld \/ TakeAlrm \/ TakeTerm \/ TakeHup \/ TakeHupNoFile)
  BY <1>1 DEF Select, EndSignals, TakeChld, TakeAlrm, TakeTerm, TakeHup, TakeHupNoFile, Take,
     svcVars
<1>5. ASSUME NEW p \in Pids, Reap(p) PROVE FALSE
  <2>1. PICK o \in Services : Reaped(p, o)
    BY <1>5, ReapDoes
  <2> QED
    BY <2>1 DEF Reaped, TypeOK
<1>6. ~(ReapCorrupt \/ ReapDone \/ RetryDone \/ ConfigAbort \/ ConfigSwap \/ ConfigDone \/ ScanDone \/ Read)
  BY <1>1 DEF ReapCorrupt, Corrupt, ReapDone, RetryDone, ConfigAbort, ConfigSwap, ConfigDone,
     ScanDone,
              Read, svcVars
<1>7. ASSUME NEW t \in Services, Retry(t) \/ ConfigKeep(t) \/ ConfigSetup(t) \/ ConfigPurge(t) PROVE FALSE
  BY <1>1, <1>2, <1>7 DEF Retry, ConfigKeep, ConfigSetup, ConfigPurge, CloseSep
<1>8. ASSUME NEW t \in Services,
             ServeNone(t) \/ ServeDatagram(t) \/ ServeForkFails(t) \/ ServeCorrupt(t) \/ ServeLooping(t)
      PROVE  FALSE
  BY <1>1, <1>2, <1>8 DEF ServeNone, ServeDatagram, ServeForkFails, ServeCorrupt, Corrupt,
     ServeLooping,
                          CloseSep, svcVars
<1>9. ASSUME NEW t \in Services, NEW p \in Pids, ServeChild(t, p) PROVE mpc = "scan" /\ s \in todo
  <2>1. mpc = "scan" /\ t \in todo
    BY <1>9 DEF ServeChild, Forks, Serve
  <2>2. children' = [children EXCEPT ![t] = children[t] \cup {p}]
    BY <1>9, Zenon DEF ServeChild
  <2>3. t = s
    BY <2>2 DEF TypeOK
  <2> QED
    BY <2>1, <2>3
<1> QED
  BY <1>3, <1>4, <1>5, <1>6, <1>7, <1>8, <1>9 DEF Next, Main

LEMMA RoomStep ==
  ASSUME SelectAssumption
  PROVE  LoopInv /\ [Next]_vars =>
           [\A s \in Services :
              ~(children'[s] \subseteq children[s]) /\ s \notin adjusted =>
                running[s] /\ ~Exceeds(maxchild[s], Count(s))]_vars
<1> SUFFICES ASSUME LoopInv, Next, NEW s \in Services,
                    ~(children'[s] \subseteq children[s]), s \notin adjusted
             PROVE  running[s] /\ ~Exceeds(maxchild[s], Count(s))
  OBVIOUS
<1>1. TypeOK /\ Room /\ Owned /\ ClosedEmpty /\ SeenRuns
  BY StepKinds DEF LoopInv, Core
<1>2. running[s]
  BY <1>1, OnlyServeAdds DEF SeenRuns
<1> QED
  BY <1>1, <1>2 DEF Room

\* A service whose connections are accepted had room for a child when select() returned,
\* or was reconfigured in that round: nothing that is served before it takes its room.
THEOREM RoomIsLookedAt == ASSUME SelectAssumption PROVE Spec => RoomAtRound
BY RoomStep, LoopInit, LoopStep, PTL DEF Spec, RoomAtRound
=============================================================================

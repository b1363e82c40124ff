------------------------- MODULE Dispatch_proofs -------------------------
(***************************************************************************)
(* Proofs about ProcessGroup, for any set of processes and any bounds: its *)
(* types, that no SIGCHLD a queued child needs is lost, that a tracked     *)
(* process is in exactly one place, and that each step is one of Reaper or *)
(* none.  Last, the specification that TLC runs of it and SelectLoop: what *)
(* was proved of each holds in its states.                                 *)
(***************************************************************************)
EXTENDS MCDispatch, FiniteSetTheorems, TLAPS

-----------------------------------------------------------------------------
(* How often a value occurs in a sequence.                                 *)

At(s, x) == {i \in DOMAIN s : s[i] = x}
Times(s, x) == Cardinality(At(s, x))

LEMMA TimesType ==
  ASSUME NEW S, NEW s \in Seq(S), NEW x
  PROVE  IsFiniteSet(At(s, x)) /\ Times(s, x) \in Nat
<1>1. At(s, x) \in SUBSET (1 .. Len(s))
  BY DEF At
<1>2. IsFiniteSet(1 .. Len(s))
  BY FS_Interval
<1>3. IsFiniteSet(At(s, x))
  BY <1>1, <1>2, FS_Subset
<1> QED
  BY <1>3, FS_CardinalityType DEF Times

LEMMA TimesAppend ==
  ASSUME NEW S, NEW s \in Seq(S), NEW e \in S, NEW x
  PROVE  Times(Append(s, e), x) = Times(s, x) + (IF e = x THEN 1 ELSE 0)
<1>1. IsFiniteSet(At(s, x)) /\ Times(s, x) \in Nat
  BY TimesType
<1>2. CASE e = x
  <2>1. At(Append(s, e), x) = At(s, x) \cup {Len(s) + 1}
    BY <1>2 DEF At
  <2>2. Len(s) + 1 \notin At(s, x)
    BY DEF At
  <2> QED
    BY <1>1, <1>2, <2>1, <2>2, FS_AddElement DEF Times
<1>3. CASE e # x
  <2>1. At(Append(s, e), x) = At(s, x)
    BY <1>3 DEF At
  <2> QED
    BY <1>1, <1>3, <2>1 DEF Times
<1> QED
  BY <1>2, <1>3

LEMMA TimesTail ==
  ASSUME NEW S, NEW s \in Seq(S), s # <<>>, NEW x
  PROVE  Times(s, x) = Times(Tail(s), x) + (IF Head(s) = x THEN 1 ELSE 0)
<1> DEFINE T == At(Tail(s), x)
           U == At(s, x) \ {1}
           f == [i \in T |-> i + 1]
<1>0. Tail(s) \in Seq(S) /\ Len(s) \in Nat \ {0} /\ DOMAIN s = 1 .. Len(s)
  OBVIOUS
<1>1. IsFiniteSet(At(s, x)) /\ Times(s, x) \in Nat /\ IsFiniteSet(T) /\ Times(Tail(s), x) \in Nat
  BY <1>0, TimesType
<1>2. T = {i \in 1 .. Len(s) - 1 : s[i + 1] = x}
  BY <1>0 DEF At
<1>3. U = {i \in 2 .. Len(s) : s[i] = x}
  BY <1>0 DEF At
<1>4. f \in Bijection(T, U)
  <2>1. f \in [T -> U]
    BY <1>0, <1>2, <1>3
  <2>2. \A a, b \in T : f[a] = f[b] => a = b
    BY <1>0, <1>2
  <2>3. \A u \in U : u - 1 \in T /\ f[u - 1] = u
    BY <1>0, <1>2, <1>3
  <2> HIDE DEF f, T, U
  <2> QED
    BY <2>1, <2>2, <2>3 DEF Bijection, Injection, Surjection, IsInjective
<1>5. Cardinality(U) = Times(Tail(s), x)
  BY <1>1, <1>4, FS_Bijection DEF ExistsBijection, Times
<1>6. 1 \in At(s, x) <=> Head(s) = x
  BY <1>0 DEF At
<1>7. Cardinality(U) = IF 1 \in At(s, x) THEN Cardinality(At(s, x)) - 1 ELSE Cardinality(At(s, x))
  BY <1>1, FS_RemoveElement
<1> QED
  BY <1>1, <1>5, <1>6, <1>7 DEF Times

-----------------------------------------------------------------------------
(* Types.  wait() has taken a process exactly while it polls for its end.  *)

Holding == mpc = "poll" <=> held # NoPid

TypeInv == TypeOK /\ Holding

LEMMA AppendType == \A S : \A s \in Seq(S), e \in S : Append(s, e) \in Seq(S)
OBVIOUS

LEMMA TypeInit == Init => TypeInv
BY ProcessGroupAssumption DEF ProcessGroupAssumption, Init, TypeInv, TypeOK, Holding, Messages

LEMMA TypeStep == ASSUME TypeInv, [Next]_vars PROVE TypeInv'
<1> USE ProcessGroupAssumption DEF ProcessGroupAssumption, TypeInv, TypeOK, Holding
<1> USE DEF osVars, taskVars, mainVars
<1>1. ASSUME NEW k \in {"NEW", "EXIT", "TRACK"}, NEW p \in Pids PROVE <<k, p>> \in Messages
  BY DEF Messages
<1>2. ASSUME NEW p \in Pids, Create(p) PROVE TypeInv'
  <2>1. port' \in Seq(Messages)
    <3>1. port' = port \/ port' = Append(port, <<"NEW", p>>)
      BY <1>2, Zenon DEF Create
    <3>2. <<"NEW", p>> \in Messages
      BY <1>1
    <3>3. port \in Seq(Messages) /\ Append(port, <<"NEW", p>>) \in Seq(Messages)
      BY <3>2, AppendType, Zenon
    <3> QED
      BY <3>1, <3>3, Zenon
  <2>2. injob' \in [Pids -> BOOLEAN]
    BY <1>2 DEF Create
  <2>3. os' \in [Pids -> {"free", "running", "ended"}]
        /\ parent' \in [Pids -> {"none", "tracking", "done"}]
        /\ UNCHANGED <<late, childids, processes, complete, attempts, task, signals, mpc, held>>
    BY <1>2 DEF Create
  <2> QED
    BY <2>1, <2>2, <2>3
<1>3. ASSUME NEW p \in Pids, Track(p) PROVE TypeInv'
  BY <1>1, <1>3 DEF Track
<1>4. ASSUME NEW p \in Pids, Abandon(p) PROVE TypeInv'
  BY <1>4 DEF Abandon, Release
<1>5. ASSUME NEW p \in Pids, Exit(p) PROVE TypeInv'
  BY <1>1, <1>5 DEF Exit
<1>6. ASSUME NEW p \in Pids, GetNew(p) \/ GetExit(p) \/ GetTrack(p) PROVE TypeInv'
  <2>1. port' = Tail(port) /\ port # <<>>
    BY <1>6 DEF GetNew, GetExit, GetTrack, Received
  <2>2. port' \in Seq(Messages)
    BY <2>1
  <2>3. complete' = complete \/ complete' = Append(complete, p)
    BY <1>6, Zenon DEF GetNew, GetExit, GetTrack
  <2>4. complete' \in Seq(Pids)
    <3>1. complete \in Seq(Pids) /\ Append(complete, p) \in Seq(Pids)
      BY AppendType, Zenon
    <3> QED
      BY <2>3, <3>1, Zenon
  <2>5. childids' \subseteq Pids /\ processes' \subseteq Pids /\ task' \in {"get", "signal"}
    BY <1>6, Zenon DEF GetNew, GetExit, GetTrack
  <2>6. UNCHANGED <<os, injob, late, parent, attempts, signals, mpc, held>>
    BY <1>6, Zenon DEF GetNew, GetExit, GetTrack
  <2> QED
    BY <2>2, <2>4, <2>5, <2>6
<1>7. CASE Sigchld
  BY <1>7 DEF Sigchld
<1>8. CASE TakeSigchld \/ WaitEmpty
  BY <1>8 DEF TakeSigchld, WaitEmpty
<1>9. CASE WaitPop
  <2>1. Head(complete) \in Pids /\ Tail(complete) \in Seq(Pids)
    BY <1>9 DEF WaitPop
  <2> QED
    BY <1>9, <2>1 DEF WaitPop
<1>10. CASE Poll \/ PollDrop
  BY <1>10 DEF Poll, PollDrop, Release
<1>11. CASE PollAgain
  <2>1. held \in Pids /\ attempts[held] \in 0 .. 1
    <3>1. mpc = "poll" /\ attempts[held] < 2
      BY <1>11 DEF PollAgain
    <3>2. held \in Pids
      BY <3>1
    <3>3. attempts[held] \in 0 .. 2
      BY <3>2
    <3> QED
      BY <3>1, <3>2, <3>3
  <2>2. late' \in [Pids -> 0 .. MaxLate]
    BY <1>11, <2>1 DEF PollAgain, Closer, Signalled
  <2>3. attempts' \in [Pids -> 0 .. 2]
    BY <1>11, <2>1 DEF PollAgain
  <2>4. /\ complete' = Append(complete, held) /\ signals' = signals + 1
        /\ mpc' = "select" /\ held' = NoPid
        /\ UNCHANGED <<os, injob, parent, port, childids, processes, task>>
    BY <1>11 DEF PollAgain
  <2> QED
    BY <2>1, <2>2, <2>3, <2>4
<1>12. CASE UNCHANGED vars
  BY <1>12 DEF vars
<1> QED
  BY <1>2, <1>3, <1>4, <1>5, <1>6, <1>7, <1>8, <1>9, <1>10, <1>11, <1>12
     DEF Next, JobEventTask, Main

-----------------------------------------------------------------------------
(* Wakeups.                                                                *)

LEMMA WakeupStep == ASSUME TypeInv, NoLostWakeup, [Next]_vars PROVE NoLostWakeup'
<1> USE DEF TypeInv, TypeOK, NoLostWakeup, Serving, osVars, taskVars, mainVars
<1>1. CASE UNCHANGED <<complete, signals, task, mpc>>
  BY <1>1
<1>2. ASSUME NEW p \in Pids, GetExit(p) \/ GetTrack(p) PROVE NoLostWakeup'
  BY <1>2, SMTT(30) DEF GetExit, GetTrack, Received
<1>3. CASE Sigchld
  BY <1>3 DEF Sigchld
<1>4. CASE TakeSigchld
  BY <1>4 DEF TakeSigchld
<1>5. CASE WaitEmpty
  BY <1>5 DEF WaitEmpty
<1>6. CASE WaitPop
  BY <1>6 DEF WaitPop
<1>7. CASE Poll
  BY <1>7 DEF Poll
<1>8. CASE PollAgain
  BY <1>8 DEF PollAgain
<1>9. CASE PollDrop
  BY <1>9 DEF PollDrop
<1> QED
  BY <1>1, <1>2, <1>3, <1>4, <1>5, <1>6, <1>7, <1>8, <1>9
     DEF Next, JobEventTask, Main, Create, Track, Abandon, Exit, GetNew, vars

-----------------------------------------------------------------------------
(* Tracked processes.                                                      *)

Requests(p) == Times(port, <<"TRACK", p>>)
Queued(p) == Times(complete, p)
One(condition) == IF condition THEN 1 ELSE 0

Sum(p) == Requests(p) + One(p \in processes) + Queued(p) + One(held = p)

Summed == \A p \in Pids : Requests(p) \in Nat /\ Queued(p) \in Nat /\ Places(p) = Sum(p)

LEMMA PlacesSum == TypeOK => Summed
<1> SUFFICES ASSUME TypeOK, NEW p \in Pids
             PROVE  Requests(p) \in Nat /\ Queued(p) \in Nat /\ Places(p) = Sum(p)
  BY DEF Summed
<1>1. port \in Seq(Messages) /\ complete \in Seq(Pids)
  BY DEF TypeOK
<1>2. Requests(p) \in Nat /\ Queued(p) \in Nat
  BY <1>1, TimesType DEF Requests, Queued
<1> QED
  BY <1>2 DEF Places, Sum, Requests, Queued, Times, At, One

\* What a message posted to the port, and one taken from it, do to the requests in it.
LEMMA RequestsPosted ==
  ASSUME TypeOK, NEW k \in {"NEW", "EXIT", "TRACK"}, NEW p \in Pids, port' = Append(port, <<k, p>>)
  PROVE  \A q \in Pids : Requests(q)' = Requests(q) + One(k = "TRACK" /\ p = q)
<1>1. port \in Seq(Messages) /\ <<k, p>> \in Messages
  BY DEF TypeOK, Messages
<1> SUFFICES ASSUME NEW q \in Pids PROVE Requests(q)' = Requests(q) + One(k = "TRACK" /\ p = q)
  OBVIOUS
<1>2. Times(Append(port, <<k, p>>), <<"TRACK", q>>)
        = Times(port, <<"TRACK", q>>) + (IF <<k, p>> = <<"TRACK", q>> THEN 1 ELSE 0)
  BY <1>1, TimesAppend
<1>3. <<k, p>> = <<"TRACK", q>> <=> k = "TRACK" /\ p = q
  OBVIOUS
<1>4. Times(port', <<"TRACK", q>>) = Times(port, <<"TRACK", q>>) + One(k = "TRACK" /\ p = q)
  BY <1>2, <1>3, Zenon DEF One
<1> QED
  BY <1>4 DEF Requests

LEMMA RequestsReceived ==
  ASSUME TypeOK, NEW k \in {"NEW", "EXIT", "TRACK"}, NEW p \in Pids, Received(k, p),
         port' = Tail(port)
  PROVE  \A q \in Pids : Requests(q) = Requests(q)' + One(k = "TRACK" /\ p = q)
<1>1. port \in Seq(Messages) /\ port # <<>> /\ Head(port) = <<k, p>>
  BY DEF TypeOK, Received
<1> SUFFICES ASSUME NEW q \in Pids PROVE Requests(q) = Requests(q)' + One(k = "TRACK" /\ p = q)
  OBVIOUS
<1>2. Times(port, <<"TRACK", q>>)
        = Times(Tail(port), <<"TRACK", q>>) + (IF Head(port) = <<"TRACK", q>> THEN 1 ELSE 0)
  BY <1>1, TimesTail
<1>3. <<k, p>> = <<"TRACK", q>> <=> k = "TRACK" /\ p = q
  OBVIOUS
<1>4. Times(port, <<"TRACK", q>>) = Times(port', <<"TRACK", q>>) + One(k = "TRACK" /\ p = q)
  BY <1>1, <1>2, <1>3, Zenon DEF One
<1> QED
  BY <1>4 DEF Requests

LEMMA QueuedLast ==
  ASSUME TypeOK, NEW p \in Pids, complete' = Append(complete, p)
  PROVE  \A q \in Pids : Queued(q)' = Queued(q) + One(p = q)
BY TimesAppend DEF TypeOK, Queued, One

LEMMA QueuedFirst ==
  ASSUME TypeOK, complete # <<>>, complete' = Tail(complete)
  PROVE  \A q \in Pids : Queued(q) = Queued(q)' + One(Head(complete) = q)
BY TimesTail DEF TypeOK, Queued, One

LEMMA Untouched ==
  /\ UNCHANGED port => \A q \in Pids : UNCHANGED Requests(q)
  /\ UNCHANGED complete => \A q \in Pids : UNCHANGED Queued(q)
BY DEF Requests, Queued

LEMMA TrackedStep == ASSUME TypeInv, TrackedOnce, [Next]_vars PROVE TrackedOnce'
<1>1. TypeOK /\ TypeOK' /\ Summed
  BY TypeStep, PlacesSum DEF TypeInv
<1>2. Summed'
  BY <1>1, PlacesSum, PTL
<1>3. ASSUME NEW q \in Pids
      PROVE  Requests(q) \in Nat /\ Queued(q) \in Nat /\ Requests(q)' \in Nat /\ Queued(q)' \in Nat
             /\ Sum(q) = One(parent[q] = "done")
  BY <1>1, <1>2 DEF Summed, TrackedOnce, One
<1> SUFFICES ASSUME NEW q \in Pids PROVE Sum(q)' = One(parent'[q] = "done")
  BY <1>2 DEF Summed, TrackedOnce, One
<1>4. CASE UNCHANGED <<port, complete, processes, held, parent>>
  BY <1>3, <1>4, Untouched DEF Sum, One
<1>5. ASSUME NEW p \in Pids, Create(p) PROVE Sum(q)' = One(parent'[q] = "done")
  <2>1. Requests(q)' = Requests(q)
    <3>1. CASE port' = Append(port, <<"NEW", p>>)
      BY <1>1, <1>3, <3>1, RequestsPosted DEF One
    <3>2. CASE UNCHANGED port
      BY <3>2, Untouched
    <3> QED
      BY <1>5, <3>1, <3>2, Zenon DEF Create
  <2>2. Queued(q)' = Queued(q)
    BY <1>5, Untouched DEF Create
  <2> QED
    BY <1>1, <1>3, <1>5, <2>1, <2>2, SMTT(30) DEF Create, Sum, One, TypeOK, taskVars, mainVars
<1>6. ASSUME NEW p \in Pids, Exit(p) PROVE Sum(q)' = One(parent'[q] = "done")
  <2>1. Requests(q)' = Requests(q)
    <3>1. CASE port' = Append(port, <<"EXIT", p>>)
      BY <1>1, <1>3, <3>1, RequestsPosted DEF One
    <3>2. CASE UNCHANGED port
      BY <3>2, Untouched
    <3> QED
      BY <1>6, <3>1, <3>2, Zenon DEF Exit
  <2>2. Queued(q)' = Queued(q)
    BY <1>6, Untouched DEF Exit
  <2> QED
    BY <1>1, <1>3, <1>6, <2>1, <2>2 DEF Exit, Sum, One, TypeOK, taskVars, mainVars
<1>7. ASSUME NEW p \in Pids, Track(p) PROVE Sum(q)' = One(parent'[q] = "done")
  <2>1. Requests(q)' = Requests(q) + One(p = q)
    BY <1>1, <1>7, RequestsPosted DEF Track, One
  <2>2. Queued(q)' = Queued(q)
    BY <1>7, Untouched DEF Track
  <2>3. /\ UNCHANGED <<processes, held>>
        /\ parent[p] = "tracking" /\ parent' = [parent EXCEPT ![p] = "done"]
    BY <1>7 DEF Track, taskVars, mainVars
  <2>4. CASE p = q
    <3>1. parent'[q] = "done" /\ parent[q] # "done"
      BY <1>1, <2>3, <2>4 DEF TypeOK
    <3> QED
      BY <1>3, <2>1, <2>2, <2>3, <2>4, <3>1 DEF Sum, One
  <2>5. CASE p # q
    <3>1. parent'[q] = parent[q]
      BY <1>1, <2>3, <2>5 DEF TypeOK
    <3> QED
      BY <1>3, <2>1, <2>2, <2>3, <2>5, <3>1 DEF Sum, One
  <2> QED
    BY <2>4, <2>5
<1>8. ASSUME NEW p \in Pids, Abandon(p) PROVE Sum(q)' = One(parent'[q] = "done")
  <2>1. Requests(q)' = Requests(q) /\ Queued(q)' = Queued(q)
    BY <1>8, Untouched DEF Abandon
  <2> QED
    BY <1>1, <1>3, <1>8, <2>1 DEF Abandon, Release, Sum, One, TypeOK, taskVars, mainVars
<1>9. ASSUME NEW p \in Pids, GetNew(p) PROVE Sum(q)' = One(parent'[q] = "done")
  <2>1. Requests(q)' = Requests(q)
    BY <1>1, <1>3, <1>9, RequestsReceived DEF GetNew, One
  <2>2. Queued(q)' = Queued(q)
    BY <1>9, Untouched DEF GetNew
  <2> QED
    BY <1>1, <1>3, <1>9, <2>1, <2>2 DEF GetNew, Sum, One, TypeOK, mainVars
<1>10. ASSUME NEW p \in Pids, GetExit(p) PROVE Sum(q)' = One(parent'[q] = "done")
  <2>1. Requests(q)' = Requests(q)
    BY <1>1, <1>3, <1>10, RequestsReceived DEF GetExit, One
  <2>2. CASE p \in processes
    <3>1. Queued(q)' = Queued(q) + One(p = q)
      BY <1>1, <1>10, <2>2, QueuedLast DEF GetExit
    <3> QED
      BY <1>1, <1>3, <1>10, <2>1, <2>2, <3>1 DEF GetExit, Sum, One, mainVars
  <2>3. CASE p \notin processes
    <3>1. Queued(q)' = Queued(q)
      BY <1>10, <2>3, Untouched DEF GetExit
    <3> QED
      BY <1>1, <1>3, <1>10, <2>1, <2>3, <3>1 DEF GetExit, Sum, One, mainVars
  <2> QED
    BY <2>2, <2>3
<1>11. ASSUME NEW p \in Pids, GetTrack(p) PROVE Sum(q)' = One(parent'[q] = "done")
  <2>1. Requests(q) = Requests(q)' + One(p = q)
    BY <1>1, <1>11, RequestsReceived DEF GetTrack, One
  <2>2. CASE p \in childids
    <3>1. Queued(q)' = Queued(q)
      BY <1>11, <2>2, Untouched DEF GetTrack
    <3>2. processes' = processes \cup {p} /\ held' = held /\ parent' = parent
      BY <1>11, <2>2 DEF GetTrack, mainVars
    <3> QED
      BY <1>1, <1>3, <2>1, <3>1, <3>2 DEF Sum, One
  <2>3. CASE p \notin childids
    <3>1. Queued(q)' = Queued(q) + One(p = q)
      BY <1>1, <1>11, <2>3, QueuedLast DEF GetTrack
    <3>2. processes' = processes /\ held' = held /\ parent' = parent
      BY <1>11, <2>3 DEF GetTrack, mainVars
    <3> QED
      BY <1>1, <1>3, <2>1, <3>1, <3>2 DEF Sum, One
  <2> QED
    BY <2>2, <2>3
<1>12. CASE WaitPop
  <2>1. Queued(q) = Queued(q)' + One(Head(complete) = q)
    BY <1>1, <1>12, QueuedFirst DEF WaitPop
  <2>2. Requests(q)' = Requests(q)
    BY <1>12, Untouched DEF WaitPop
  <2>3. held = NoPid /\ NoPid # q
    BY <1>12, ProcessGroupAssumption DEF WaitPop, ProcessGroupAssumption, TypeInv, Holding
  <2> QED
    BY <1>1, <1>3, <1>12, <2>1, <2>2, <2>3 DEF WaitPop, Sum, One, taskVars
<1>13. ASSUME mpc = "poll" PROVE held \in Pids /\ NoPid # q
  BY <1>13, ProcessGroupAssumption DEF ProcessGroupAssumption, TypeInv, TypeOK, Holding
<1>14. CASE Poll \/ PollDrop
  <2>1. Requests(q)' = Requests(q) /\ Queued(q)' = Queued(q)
    BY <1>14, Untouched DEF Poll, PollDrop
  <2>2. /\ mpc = "poll" /\ held' = NoPid /\ processes' = processes
        /\ parent' = [parent EXCEPT ![held] = "none"]
    BY <1>14 DEF Poll, PollDrop, Release, taskVars
  <2>3. CASE held = q
    <3>1. Requests(q) + One(q \in processes) + Queued(q) = 0
      BY <1>3, <2>3 DEF Sum, One
    <3>2. parent'[q] # "done"
      BY <1>1, <2>2, <2>3 DEF TypeOK
    <3>3. NoPid # q
      BY <1>13, <2>2
    <3> QED
      BY <2>1, <2>2, <3>1, <3>2, <3>3 DEF Sum, One
  <2>4. CASE held # q
    <3>1. parent'[q] = parent[q]
      BY <1>1, <2>2, <2>4 DEF TypeOK
    <3> QED
      BY <1>3, <1>13, <2>1, <2>2, <2>4, <3>1 DEF Sum, One
  <2> QED
    BY <2>3, <2>4
<1>15. CASE PollAgain
  <2>1. Requests(q)' = Requests(q)
    BY <1>15, Untouched DEF PollAgain
  <2>2. mpc = "poll" /\ held' = NoPid /\ UNCHANGED <<processes, parent>>
    BY <1>15 DEF PollAgain, taskVars
  <2>3. Queued(q)' = Queued(q) + One(held = q)
    BY <1>1, <1>13, <1>15, QueuedLast DEF PollAgain
  <2> QED
    BY <1>1, <1>3, <1>13, <2>1, <2>2, <2>3 DEF Sum, One
<1> QED
  BY <1>4, <1>5, <1>6, <1>7, <1>8, <1>9, <1>10, <1>11, <1>12, <1>14, <1>15, Zenon
     DEF Next, JobEventTask, Main, Sigchld, TakeSigchld, WaitEmpty, vars, taskVars, mainVars

-----------------------------------------------------------------------------
GroupInv == TypeInv /\ NoLostWakeup /\ TrackedOnce

LEMMA GroupInit == Init => GroupInv
<1> SUFFICES ASSUME Init PROVE GroupInv
  OBVIOUS
<1>1. NoLostWakeup
  BY DEF Init, NoLostWakeup, Serving
<1>2. TypeInv /\ Summed
  BY TypeInit, PlacesSum DEF TypeInv
<1>3. ASSUME NEW p \in Pids PROVE Sum(p) = 0 /\ parent[p] # "done"
  <2>1. At(<<>>, p) = {} /\ At(<<>>, <<"TRACK", p>>) = {}
    BY DEF At
  <2>2. Requests(p) = 0 /\ Queued(p) = 0
    BY <2>1, FS_EmptySet DEF Init, Requests, Queued, Times
  <2>3. processes = {} /\ held # p /\ parent[p] = "none"
    BY ProcessGroupAssumption DEF Init, ProcessGroupAssumption
  <2> QED
    BY <2>2, <2>3 DEF Sum, One
<1> QED
  BY <1>1, <1>2, <1>3 DEF GroupInv, TrackedOnce, Summed

LEMMA GroupStep == GroupInv /\ [Next]_vars => GroupInv'
BY TypeStep, WakeupStep, TrackedStep DEF GroupInv

\* The types of ProcessGroup.h's state hold in every reachable state, and wait() has a
\* process in its hands exactly while it polls it.
THEOREM TypeCorrect == Spec => []TypeOK
<1>1. GroupInv => TypeOK
  BY DEF GroupInv, TypeInv
<1> QED
  BY <1>1, GroupInit, GroupStep, PTL DEF Spec

\* No wakeup is lost: every child queued for wait() has a SIGCHLD of its own to come, for
\* any number of processes and of signals, though reapchildren() stops early.
THEOREM WakeupsKept == Spec => []NoLostWakeup
<1>1. GroupInv => NoLostWakeup
  BY DEF GroupInv
<1> QED
  BY <1>1, GroupInit, GroupStep, PTL DEF Spec

\* A tracked process is always in exactly one of the port, JobEventTask's map, complete_
\* and wait()'s hands, whatever the order of its notifications and of track(): it is never
\* lost before wait() lets go of it and never reported twice.
THEOREM TrackedExactlyOnce == Spec => []TrackedOnce
<1>1. GroupInv => TrackedOnce
  BY DEF GroupInv
<1> QED
  BY <1>1, GroupInit, GroupStep, PTL DEF Spec

-----------------------------------------------------------------------------
(* ProcessGroup implements Reaper.  A process of the job is reported only  *)
(* when it has ended: what JobEventTask knows of it is what the messages   *)
(* before its track() said, for the port keeps their order.                *)

Lacks(s, x) == \A i \in DOMAIN s : s[i] # x
LastIs(s, a, b) == \E i \in DOMAIN s : s[i] = a /\ \A j \in DOMAIN s : j > i => s[j] # b
NeverThen(s, a, b) == \A i, j \in DOMAIN s : i < j /\ s[i] = a => s[j] # b

\* What a sequence says after something was added to it,
LEMMA Added ==
  ASSUME NEW S, NEW s \in Seq(S), NEW e \in S, NEW a, NEW b
  PROVE  /\ Lacks(Append(s, e), a) <=> Lacks(s, a) /\ e # a
         /\ LastIs(s, a, b) /\ e # b => LastIs(Append(s, e), a, b)
         /\ e = a => LastIs(Append(s, e), a, b)
         /\ NeverThen(s, a, b) /\ (e # b \/ Lacks(s, a)) => NeverThen(Append(s, e), a, b)
<1> DEFINE t == Append(s, e)
           n == Len(s) + 1
<1>1. n \in Nat \ {0} /\ DOMAIN s = 1 .. n - 1 /\ DOMAIN t = 1 .. n
      /\ (\A i \in 1 .. n - 1 : t[i] = s[i]) /\ t[n] = e
  OBVIOUS
<1> HIDE DEF t, n
<1>2. Lacks(t, a) <=> Lacks(s, a) /\ e # a
  BY <1>1 DEF Lacks
<1>3. LastIs(s, a, b) /\ e # b => LastIs(t, a, b)
  BY <1>1 DEF LastIs
<1>4. e = a => LastIs(t, a, b)
  BY <1>1 DEF LastIs
<1>5. NeverThen(s, a, b) /\ (e # b \/ Lacks(s, a)) => NeverThen(t, a, b)
  BY <1>1 DEF NeverThen, Lacks
<1> QED
  BY <1>2, <1>3, <1>4, <1>5 DEF t

\* and after its first was taken.
LEMMA Taken ==
  ASSUME NEW S, NEW s \in Seq(S), s # <<>>, NEW a, NEW b
  PROVE  /\ Lacks(s, a) <=> Lacks(Tail(s), a) /\ Head(s) # a
         /\ LastIs(s, a, b) => LastIs(Tail(s), a, b) \/ (Head(s) = a /\ Lacks(Tail(s), b))
         /\ NeverThen(s, a, b) => NeverThen(Tail(s), a, b) /\ (Head(s) = a => Lacks(Tail(s), b))
<1> DEFINE t == Tail(s)
           n == Len(s)
<1>1. n \in Nat \ {0} /\ DOMAIN s = 1 .. n /\ DOMAIN t = 1 .. n - 1
      /\ (\A i \in 1 .. n - 1 : t[i] = s[i + 1]) /\ Head(s) = s[1]
  OBVIOUS
<1> HIDE DEF t, n
<1>2. \A i \in DOMAIN s : i = 1 \/ (i - 1 \in DOMAIN t /\ s[i] = t[i - 1])
  BY <1>1
<1>3. \A i \in DOMAIN t : i + 1 \in DOMAIN s /\ t[i] = s[i + 1]
  BY <1>1
<1>4. Lacks(s, a) <=> Lacks(t, a) /\ Head(s) # a
  BY <1>1, <1>2, <1>3, SMTT(30) DEF Lacks
<1>5. LastIs(s, a, b) => LastIs(t, a, b) \/ (Head(s) = a /\ Lacks(t, b))
  <2> SUFFICES ASSUME LastIs(s, a, b) PROVE LastIs(t, a, b) \/ (Head(s) = a /\ Lacks(t, b))
    OBVIOUS
  <2>1. PICK i \in DOMAIN s : s[i] = a /\ \A j \in DOMAIN s : j > i => s[j] # b
    BY DEF LastIs
  <2>2. CASE i = 1
    BY <1>1, <2>1, <2>2 DEF Lacks
  <2>3. CASE i # 1
    <3>1. i - 1 \in DOMAIN t /\ t[i - 1] = a
      BY <1>2, <2>1, <2>3
    <3>2. ASSUME NEW j \in DOMAIN t, j > i - 1 PROVE t[j] # b
      <4>1. j + 1 \in DOMAIN s /\ j + 1 > i
        BY <1>1, <3>2
      <4> QED
        BY <1>3, <2>1, <4>1
    <3> QED
      BY <3>1, <3>2 DEF LastIs
  <2> QED
    BY <2>2, <2>3
<1>6. NeverThen(s, a, b) => NeverThen(t, a, b) /\ (Head(s) = a => Lacks(t, b))
  <2> SUFFICES ASSUME NeverThen(s, a, b)
               PROVE  NeverThen(t, a, b) /\ (Head(s) = a => Lacks(t, b))
    OBVIOUS
  <2>1. ASSUME NEW i \in DOMAIN t, NEW j \in DOMAIN t, i < j, t[i] = a PROVE t[j] # b
    <3>1. i + 1 \in DOMAIN s /\ j + 1 \in DOMAIN s /\ i + 1 < j + 1
      BY <1>1, <2>1
    <3> QED
      BY <1>3, <2>1, <3>1 DEF NeverThen
  <2>2. ASSUME Head(s) = a, NEW j \in DOMAIN t PROVE t[j] # b
    <3>1. 1 \in DOMAIN s /\ j + 1 \in DOMAIN s /\ 1 < j + 1
      BY <1>1, <2>2
    <3> QED
      BY <1>1, <1>3, <2>2, <3>1 DEF NeverThen
  <2> QED
    BY <2>1, <2>2 DEF NeverThen, Lacks
<1> QED
  BY <1>4, <1>5, <1>6 DEF t

\* Three polls are enough for the handle of an ended process.
Timely == MaxLate <= 2

New(p)  == <<"NEW", p>>
Ended(p) == <<"EXIT", p>>
Tracked(p) == <<"TRACK", p>>

\* The last message about a process is true of it, or it has been taken, and JobEventTask knows;
Told(p) ==
  /\ os[p] = "running" =>
       LastIs(port, New(p), Ended(p)) \/ (p \in childids /\ Lacks(port, Ended(p)))
  /\ os[p] # "running" =>
       LastIs(port, Ended(p), New(p)) \/ (p \notin childids /\ Lacks(port, New(p)))

\* a process is created in the job, and has not gone while somebody has a handle of it;
Alive(p) ==
  /\ os[p] = "running" => injob[p]
  /\ os[p] = "free" => parent[p] = "none"
  /\ os[p] = "ended" => parent[p] # "none"

\* track() is asked for after the process was created;
Asked(p) ==
  /\ NeverThen(port, Tracked(p), New(p))
  /\ p \in processes => Lacks(port, New(p))
  /\ p \in processes \/ ~Lacks(port, Tracked(p)) => attempts[p] = 0

\* and what wait() is given has ended, and will be seen to have before it is given up.
Over(p) ==
  ~Lacks(complete, p) \/ held = p => os[p] = "ended" /\ late[p] + attempts[p] <= MaxLate

JobInv == \A p \in Pids \ Unassigned : Told(p) /\ Alive(p) /\ Asked(p) /\ Over(p)

-----------------------------------------------------------------------------
LEMMA LacksIsNone ==
  ASSUME NEW S, NEW s \in Seq(S), NEW x
  PROVE  Lacks(s, x) <=> Times(s, x) = 0
<1>1. IsFiniteSet(At(s, x))
  BY TimesType
<1>2. Times(s, x) = 0 <=> At(s, x) = {}
  BY <1>1, FS_EmptySet DEF Times
<1> QED
  BY <1>2 DEF Lacks, At

\* A process that wait() has let go of is nowhere, one that it holds is nowhere else.
Placed ==
  \A p \in Pids :
    /\ parent[p] # "done" => /\ Lacks(port, Tracked(p)) /\ p \notin processes
                             /\ Lacks(complete, p) /\ held # p
    /\ held = p => Lacks(port, Tracked(p)) /\ p \notin processes /\ Lacks(complete, p)

LEMMA OnePlace == TypeOK /\ TrackedOnce => Placed
<1> SUFFICES ASSUME TypeOK, TrackedOnce, NEW p \in Pids
             PROVE  /\ parent[p] # "done" => /\ Lacks(port, Tracked(p)) /\ p \notin processes
                                             /\ Lacks(complete, p) /\ held # p
                    /\ held = p => /\ Lacks(port, Tracked(p)) /\ p \notin processes
                                   /\ Lacks(complete, p)
  BY DEF Placed
<1>1. port \in Seq(Messages) /\ complete \in Seq(Pids)
  BY DEF TypeOK
<1>2. /\ Lacks(port, Tracked(p)) <=> Requests(p) = 0
      /\ Lacks(complete, p) <=> Queued(p) = 0
  BY <1>1, LacksIsNone DEF Requests, Queued, Tracked
<1>3. Requests(p) \in Nat /\ Queued(p) \in Nat
      /\ Requests(p) + One(p \in processes) + Queued(p) + One(held = p) = One(parent[p] = "done")
  BY PlacesSum DEF Summed, TrackedOnce, Sum, One
<1> QED
  BY <1>2, <1>3 DEF One

LEMMA LastIsThere == \A s, a, b : LastIs(s, a, b) => ~Lacks(s, a)
BY DEF LastIs, Lacks

\* What a message that is posted leaves true of a process.
LEMMA Posted ==
  ASSUME TypeOK, NEW k \in {"NEW", "EXIT", "TRACK"}, NEW q \in Pids, port' = Append(port, <<k, q>>),
         NEW p \in Pids
  PROVE  LET its(m) == k = m /\ q = p IN
         /\ its("NEW") \/ (LastIs(port, New(p), Ended(p)) /\ ~its("EXIT"))
              => LastIs(port', New(p), Ended(p))
         /\ its("EXIT") \/ (LastIs(port, Ended(p), New(p)) /\ ~its("NEW"))
              => LastIs(port', Ended(p), New(p))
         /\ Lacks(port', New(p)) <=> Lacks(port, New(p)) /\ ~its("NEW")
         /\ Lacks(port', Ended(p)) <=> Lacks(port, Ended(p)) /\ ~its("EXIT")
         /\ Lacks(port', Tracked(p)) <=> Lacks(port, Tracked(p)) /\ ~its("TRACK")
         /\ NeverThen(port, Tracked(p), New(p)) /\ (its("NEW") => Lacks(port, Tracked(p)))
              => NeverThen(port', Tracked(p), New(p))
<1>1. port \in Seq(Messages) /\ <<k, q>> \in Messages
  BY DEF TypeOK, Messages
<1>2. /\ <<k, q>> = New(p) <=> k = "NEW" /\ q = p
      /\ <<k, q>> = Ended(p) <=> k = "EXIT" /\ q = p
      /\ <<k, q>> = Tracked(p) <=> k = "TRACK" /\ q = p
  BY DEF New, Ended, Tracked
<1>3. ASSUME NEW a, NEW b
      PROVE  /\ Lacks(port', a) <=> Lacks(port, a) /\ <<k, q>> # a
             /\ LastIs(port, a, b) /\ <<k, q>> # b => LastIs(port', a, b)
             /\ <<k, q>> = a => LastIs(port', a, b)
             /\ NeverThen(port, a, b) /\ (<<k, q>> # b \/ Lacks(port, a)) => NeverThen(port', a, b)
  BY <1>1, Added, Zenon
<1>4. LastIs(port, New(p), Ended(p)) /\ <<k, q>> # Ended(p) => LastIs(port', New(p), Ended(p))
  BY <1>3
<1>5. <<k, q>> = New(p) => LastIs(port', New(p), Ended(p))
  BY <1>3
<1>6. LastIs(port, Ended(p), New(p)) /\ <<k, q>> # New(p) => LastIs(port', Ended(p), New(p))
  BY <1>3
<1>7. <<k, q>> = Ended(p) => LastIs(port', Ended(p), New(p))
  BY <1>3
<1>8. /\ Lacks(port', New(p)) <=> Lacks(port, New(p)) /\ <<k, q>> # New(p)
      /\ Lacks(port', Ended(p)) <=> Lacks(port, Ended(p)) /\ <<k, q>> # Ended(p)
      /\ Lacks(port', Tracked(p)) <=> Lacks(port, Tracked(p)) /\ <<k, q>> # Tracked(p)
  BY <1>3
<1>9. NeverThen(port, Tracked(p), New(p)) /\ (<<k, q>> # New(p) \/ Lacks(port, Tracked(p)))
        => NeverThen(port', Tracked(p), New(p))
  BY <1>3
<1> QED
  BY <1>2, <1>4, <1>5, <1>6, <1>7, <1>8, <1>9, Zenon

\* And what one that is received does.
LEMMA Got ==
  ASSUME TypeOK, NEW k \in {"NEW", "EXIT", "TRACK"}, NEW q \in Pids, Received(k, q),
         port' = Tail(port), NEW p \in Pids
  PROVE  LET its(m) == k = m /\ q = p IN
         /\ LastIs(port, New(p), Ended(p)) =>
              LastIs(port', New(p), Ended(p)) \/ (its("NEW") /\ Lacks(port', Ended(p)))
         /\ LastIs(port, Ended(p), New(p)) =>
              LastIs(port', Ended(p), New(p)) \/ (its("EXIT") /\ Lacks(port', New(p)))
         /\ Lacks(port, New(p)) <=> Lacks(port', New(p)) /\ ~its("NEW")
         /\ Lacks(port, Ended(p)) <=> Lacks(port', Ended(p)) /\ ~its("EXIT")
         /\ Lacks(port, Tracked(p)) <=> Lacks(port', Tracked(p)) /\ ~its("TRACK")
         /\ NeverThen(port, Tracked(p), New(p)) =>
              /\ NeverThen(port', Tracked(p), New(p))
              /\ its("TRACK") => Lacks(port', New(p))
<1>1. port \in Seq(Messages) /\ port # <<>> /\ Head(port) = <<k, q>>
  BY DEF TypeOK, Received
<1>2. /\ <<k, q>> = New(p) <=> k = "NEW" /\ q = p
      /\ <<k, q>> = Ended(p) <=> k = "EXIT" /\ q = p
      /\ <<k, q>> = Tracked(p) <=> k = "TRACK" /\ q = p
  BY DEF New, Ended, Tracked
<1>3. ASSUME NEW a, NEW b
      PROVE  /\ Lacks(port, a) <=> Lacks(port', a) /\ <<k, q>> # a
             /\ LastIs(port, a, b) => LastIs(port', a, b) \/ (<<k, q>> = a /\ Lacks(port', b))
             /\ NeverThen(port, a, b) =>
                  NeverThen(port', a, b) /\ (<<k, q>> = a => Lacks(port', b))
  <2>1. /\ Lacks(port, a) <=> Lacks(Tail(port), a) /\ Head(port) # a
        /\ LastIs(port, a, b) =>
             LastIs(Tail(port), a, b) \/ (Head(port) = a /\ Lacks(Tail(port), b))
        /\ NeverThen(port, a, b) =>
             NeverThen(Tail(port), a, b) /\ (Head(port) = a => Lacks(Tail(port), b))
    BY <1>1, Taken, Zenon
  <2> QED
    BY <1>1, <2>1
<1>4. LastIs(port, New(p), Ended(p)) =>
        LastIs(port', New(p), Ended(p)) \/ (<<k, q>> = New(p) /\ Lacks(port', Ended(p)))
  BY <1>3
<1>5. LastIs(port, Ended(p), New(p)) =>
        LastIs(port', Ended(p), New(p)) \/ (<<k, q>> = Ended(p) /\ Lacks(port', New(p)))
  BY <1>3
<1>6. /\ Lacks(port, New(p)) <=> Lacks(port', New(p)) /\ <<k, q>> # New(p)
      /\ Lacks(port, Ended(p)) <=> Lacks(port', Ended(p)) /\ <<k, q>> # Ended(p)
      /\ Lacks(port, Tracked(p)) <=> Lacks(port', Tracked(p)) /\ <<k, q>> # Tracked(p)
  BY <1>3
<1>7. NeverThen(port, Tracked(p), New(p)) =>
        /\ NeverThen(port', Tracked(p), New(p))
        /\ <<k, q>> = Tracked(p) => Lacks(port', New(p))
  BY <1>3
<1> QED
  BY <1>2, <1>4, <1>5, <1>6, <1>7, Zenon

\* The queue of finished children.
LEMMA Queueing ==
  ASSUME TypeOK, NEW p \in Pids
  PROVE  /\ \A q \in Pids : complete' = Append(complete, q) =>
              (Lacks(complete', p) <=> Lacks(complete, p) /\ q # p)
         /\ complete # <<>> /\ complete' = Tail(complete) =>
              (Lacks(complete, p) <=> Lacks(complete', p) /\ Head(complete) # p)
<1>1. complete \in Seq(Pids)
  BY DEF TypeOK
<1>2. ASSUME NEW q \in Pids, complete' = Append(complete, q)
      PROVE  Lacks(complete', p) <=> Lacks(complete, p) /\ q # p
  BY <1>1, <1>2, Added
<1>3. ASSUME complete # <<>>, complete' = Tail(complete)
      PROVE  Lacks(complete, p) <=> Lacks(complete', p) /\ Head(complete) # p
  BY <1>1, <1>3, Taken
<1> QED
  BY <1>2, <1>3, Zenon

LEMMA JobInit == Init => JobInv
<1> SUFFICES ASSUME Init, NEW p \in Pids \ Unassigned
             PROVE  Told(p) /\ Alive(p) /\ Asked(p) /\ Over(p)
  BY DEF JobInv
<1>1. os[p] = "free" /\ parent[p] = "none" /\ attempts[p] = 0 /\ held # p
      /\ port = <<>> /\ complete = <<>> /\ childids = {} /\ processes = {}
  BY ProcessGroupAssumption DEF Init, ProcessGroupAssumption
<1>2. \A x, y : Lacks(port, x) /\ Lacks(complete, x) /\ NeverThen(port, x, y)
  BY <1>1 DEF Lacks, NeverThen
<1> QED
  BY <1>1, <1>2 DEF Told, Alive, Asked, Over

LEMMA JobStep ==
  ASSUME TypeInv, TrackedOnce, TypeInv', Placed', JobInv, [Next]_vars
  PROVE  JobInv'
<1> SUFFICES ASSUME NEW p \in Pids \ Unassigned
             PROVE  Told(p)' /\ Alive(p)' /\ Asked(p)' /\ Over(p)'
  BY DEF JobInv
<1> DEFINE Right == Told(p)' /\ Alive(p)' /\ Asked(p)' /\ Over(p)'
<1>1. TypeOK /\ Told(p) /\ Alive(p) /\ Asked(p) /\ Over(p)
  BY DEF JobInv, TypeInv
<1>2. /\ parent[p] # "done" => /\ Lacks(port, Tracked(p)) /\ p \notin processes
                               /\ Lacks(complete, p) /\ held # p
      /\ held = p => Lacks(port, Tracked(p)) /\ p \notin processes /\ Lacks(complete, p)
  BY <1>1, OnePlace DEF Placed
<1>3. /\ os \in [Pids -> {"free", "running", "ended"}] /\ injob \in [Pids -> BOOLEAN]
      /\ parent \in [Pids -> {"none", "tracking", "done"}] /\ late \in [Pids -> 0 .. MaxLate]
      /\ attempts \in [Pids -> 0 .. 2] /\ MaxLate \in Nat
  BY <1>1, ProcessGroupAssumption DEF TypeOK, ProcessGroupAssumption
<1>4. LastIs(port, New(p), Ended(p)) => ~Lacks(port, New(p))
  BY LastIsThere
<1> USE DEF osVars, taskVars, mainVars
<1>5. ASSUME UNCHANGED <<os, injob, late, parent>>,
             UNCHANGED <<port, childids, processes, complete, attempts, held>>
      PROVE  Right
  BY <1>1, <1>5 DEF Told, Alive, Asked, Over
<1>6. ASSUME NEW q \in Pids, Create(q) PROVE Right
  <2>1. CASE q = p
    <3>1. port' = Append(port, <<"NEW", p>>) /\ injob'[p]
      BY <1>3, <1>6, <2>1 DEF Create
    <3>2. LastIs(port', New(p), Ended(p))
          /\ NeverThen(port', Tracked(p), New(p)) /\ Lacks(port', Tracked(p))
      BY <1>1, <1>2, <1>6, <2>1, <3>1, Posted DEF Asked, Create
    <3>3. os'[p] = "running" /\ parent'[p] = "tracking" /\ parent[p] = "none"
          /\ UNCHANGED <<processes, complete, held>>
      BY <1>3, <1>6, <2>1 DEF Create
    <3> QED
      BY <1>2, <3>1, <3>2, <3>3 DEF Told, Alive, Asked, Over
  <2>2. CASE q # p
    <3>1. port' = port \/ port' = Append(port, <<"NEW", q>>)
      BY <1>6, Zenon DEF Create
    <3>2. os'[p] = os[p] /\ parent'[p] = parent[p] /\ injob'[p] = injob[p]
          /\ UNCHANGED <<late, childids, processes, complete, attempts, held>>
      BY <1>3, <1>6, <2>2 DEF Create
    <3>3. CASE port' = port
      BY <1>1, <3>2, <3>3 DEF Told, Alive, Asked, Over
    <3>4. CASE port' = Append(port, <<"NEW", q>>)
      BY <1>1, <2>2, <3>2, <3>4, Posted DEF Told, Alive, Asked, Over
    <3> QED
      BY <3>1, <3>3, <3>4
  <2> QED
    BY <2>1, <2>2
<1>7. ASSUME NEW q \in Pids, Exit(q) PROVE Right
  <2>1. CASE q = p
    <3>1. os[p] = "running" /\ injob[p] /\ port' = Append(port, <<"EXIT", p>>)
      BY <1>1, <1>3, <1>7, <2>1 DEF Exit, Alive
    <3>2. LastIs(port', Ended(p), New(p))
          /\ (Lacks(port', New(p)) <=> Lacks(port, New(p)))
          /\ (Lacks(port', Tracked(p)) <=> Lacks(port, Tracked(p)))
          /\ NeverThen(port', Tracked(p), New(p))
      BY <1>1, <3>1, Posted DEF Asked
    <3>3. os'[p] = (IF parent[p] = "none" THEN "free" ELSE "ended")
          /\ UNCHANGED <<parent, processes, complete, attempts, held>>
      BY <1>3, <1>7, <2>1 DEF Exit
    <3>4. Lacks(complete, p) /\ held # p
      BY <1>1, <3>1 DEF Over
    <3> QED
      BY <1>1, <3>2, <3>3, <3>4 DEF Told, Alive, Asked, Over
  <2>2. CASE q # p
    <3>1. port' = port \/ port' = Append(port, <<"EXIT", q>>)
      BY <1>7, Zenon DEF Exit
    <3>2. os'[p] = os[p] /\ late'[p] = late[p]
          /\ UNCHANGED <<parent, injob, childids, processes, complete, attempts, held>>
      BY <1>3, <1>7, <2>2 DEF Exit
    <3>3. CASE port' = port
      BY <1>1, <3>2, <3>3 DEF Told, Alive, Asked, Over
    <3>4. CASE port' = Append(port, <<"EXIT", q>>)
      BY <1>1, <2>2, <3>2, <3>4, Posted DEF Told, Alive, Asked, Over
    <3> QED
      BY <3>1, <3>3, <3>4
  <2> QED
    BY <2>1, <2>2
<1>8. ASSUME NEW q \in Pids, Track(q) PROVE Right
  <2>1. port' = Append(port, <<"TRACK", q>>)
        /\ UNCHANGED <<os, late, injob, childids, processes, complete, held>>
    BY <1>8 DEF Track
  <2>2. /\ LastIs(port, New(p), Ended(p)) => LastIs(port', New(p), Ended(p))
        /\ LastIs(port, Ended(p), New(p)) => LastIs(port', Ended(p), New(p))
        /\ Lacks(port', New(p)) <=> Lacks(port, New(p))
        /\ Lacks(port', Ended(p)) <=> Lacks(port, Ended(p))
        /\ Lacks(port', Tracked(p)) <=> Lacks(port, Tracked(p)) /\ q # p
        /\ NeverThen(port', Tracked(p), New(p))
    BY <1>1, <2>1, Posted DEF Asked
  <2>3. CASE q = p
    <3>1. parent[p] = "tracking" /\ parent'[p] = "done" /\ attempts'[p] = 0
      BY <1>3, <1>8, <2>3 DEF Track
    <3> QED
      BY <1>1, <1>2, <2>1, <2>2, <3>1 DEF Told, Alive, Asked, Over
  <2>4. CASE q # p
    <3>1. parent'[p] = parent[p] /\ attempts'[p] = attempts[p]
      BY <1>3, <1>8, <2>4 DEF Track
    <3> QED
      BY <1>1, <2>1, <2>2, <2>4, <3>1 DEF Told, Alive, Asked, Over
  <2> QED
    BY <2>3, <2>4
<1>9. ASSUME NEW q \in Pids, Release(q), UNCHANGED <<injob, port, childids, processes>>,
             late' = late, attempts' = attempts, complete' = complete, held' \in {held, NoPid},
             q = p => parent[p] = "tracking" \/ held = p
      PROVE  Right
  <2>1. CASE q = p
    <3>1. parent'[p] = "none" /\ os'[p] = (IF os[p] = "ended" THEN "free" ELSE os[p])
      BY <1>3, <1>9, <2>1 DEF Release
    <3>2. Lacks(complete', p) /\ held' # p
      BY <3>1 DEF Placed
    <3> QED
      BY <1>1, <1>3, <1>9, <3>1, <3>2 DEF Told, Alive, Asked, Over
  <2>2. CASE q # p
    <3>1. parent'[p] = parent[p] /\ os'[p] = os[p]
      BY <1>3, <1>9, <2>2 DEF Release
    <3>2. held' = p => held = p
      BY <1>9, ProcessGroupAssumption DEF ProcessGroupAssumption
    <3> QED
      BY <1>1, <1>9, <3>1, <3>2 DEF Told, Alive, Asked, Over
  <2> QED
    BY <2>1, <2>2
<1>10. ASSUME NEW q \in Pids, Abandon(q) PROVE Right
  BY <1>9, <1>10 DEF Abandon
<1>11. CASE Poll \/ PollDrop
  <2>1. held \in Pids /\ Release(held) /\ held' = NoPid
        /\ UNCHANGED <<injob, port, childids, processes, late, attempts, complete>>
    BY <1>11 DEF Poll, PollDrop, TypeInv, TypeOK, Holding
  <2> QED
    BY <1>9, <2>1
<1>12. ASSUME NEW q \in Pids, GetNew(q) PROVE Right
  <2>1. Received("NEW", q) /\ port' = Tail(port) /\ childids' = childids \cup {q}
        /\ UNCHANGED <<os, late, injob, parent, processes, complete, attempts, held>>
    BY <1>12 DEF GetNew
  <2> QED
    BY <1>1, <2>1, Got DEF Told, Alive, Asked, Over
<1>13. ASSUME NEW q \in Pids, GetExit(q) PROVE Right
  <2>1. Received("EXIT", q) /\ port' = Tail(port) /\ childids' = childids \ {q}
        /\ processes' = processes \ {q} /\ UNCHANGED <<os, late, injob, parent, attempts, held>>
    BY <1>13 DEF GetExit
  <2>2. Told(p)' /\ Alive(p)' /\ Asked(p)'
    BY <1>1, <2>1, Got DEF Told, Alive, Asked
  <2>3. CASE p = q /\ p \in processes
    <3>1. Lacks(port, New(p)) /\ ~Lacks(port, Ended(p)) /\ attempts[p] = 0 /\ parent[p] = "done"
      BY <1>1, <1>2, <2>1, <2>3, Got DEF Asked
    <3>2. os[p] = "ended"
      BY <1>1, <1>3, <1>4, <3>1 DEF Told, Alive
    <3> QED
      BY <1>3, <2>1, <2>2, <3>1, <3>2 DEF Over
  <2>4. CASE ~(p = q /\ p \in processes)
    <3>1. complete' = complete \/ (complete' = Append(complete, q) /\ q # p)
      BY <1>13, <2>4, Zenon DEF GetExit
    <3>2. Lacks(complete', p) <=> Lacks(complete, p)
      BY <1>1, <3>1, Queueing
    <3> QED
      BY <1>1, <2>1, <2>2, <3>2 DEF Over
  <2> QED
    BY <2>3, <2>4
<1>14. ASSUME NEW q \in Pids, GetTrack(q) PROVE Right
  <2>1. Received("TRACK", q) /\ port' = Tail(port)
        /\ UNCHANGED <<os, late, injob, parent, childids, attempts, held>>
    BY <1>14 DEF GetTrack
  <2>2. /\ LastIs(port, New(p), Ended(p)) => LastIs(port', New(p), Ended(p))
        /\ LastIs(port, Ended(p), New(p)) => LastIs(port', Ended(p), New(p))
        /\ Lacks(port', New(p)) <=> Lacks(port, New(p))
        /\ Lacks(port', Ended(p)) <=> Lacks(port, Ended(p))
        /\ Lacks(port, Tracked(p)) <=> Lacks(port', Tracked(p)) /\ q # p
        /\ NeverThen(port', Tracked(p), New(p))
        /\ q = p => Lacks(port', New(p))
    BY <1>1, <2>1, Got DEF Asked
  <2>3. Told(p)' /\ Alive(p)'
    BY <1>1, <2>1, <2>2 DEF Told, Alive
  <2>4. CASE q = p /\ p \notin childids
    <3>1. attempts[p] = 0 /\ parent[p] = "done"
      BY <1>1, <1>2, <2>2, <2>4 DEF Asked
    <3>2. os[p] = "ended"
      BY <1>1, <1>3, <1>4, <2>2, <2>4, <3>1 DEF Told, Alive
    <3>3. UNCHANGED processes
      BY <1>14, <2>4, Zenon DEF GetTrack
    <3> QED
      BY <1>1, <1>3, <2>1, <2>2, <2>3, <3>1, <3>2, <3>3 DEF Asked, Over
  <2>5. CASE q = p /\ p \in childids
    <3>1. processes' = processes \cup {p} /\ UNCHANGED complete
      BY <1>14, <2>5, Zenon DEF GetTrack
    <3> QED
      BY <1>1, <2>1, <2>2, <2>3, <2>5, <3>1 DEF Asked, Over
  <2>6. CASE q # p
    <3>1. complete' = complete \/ complete' = Append(complete, q)
      BY <1>14, Zenon DEF GetTrack
    <3>2. Lacks(complete', p) <=> Lacks(complete, p)
      BY <1>1, <2>6, <3>1, Queueing
    <3>3. processes' \in {processes, processes \cup {q}}
      BY <1>14, Zenon DEF GetTrack
    <3> QED
      BY <1>1, <2>1, <2>2, <2>3, <2>6, <3>2, <3>3 DEF Asked, Over
  <2> QED
    BY <2>4, <2>5, <2>6
<1>15. CASE WaitPop
  <2>1. complete # <<>> /\ complete' = Tail(complete) /\ held' = Head(complete)
        /\ UNCHANGED <<os, late, injob, parent, port, childids, processes, attempts>>
    BY <1>15 DEF WaitPop
  <2>2. Lacks(complete, p) <=> Lacks(complete', p) /\ held' # p
    BY <1>1, <2>1, Queueing
  <2> QED
    BY <1>1, <2>1, <2>2 DEF Told, Alive, Asked, Over
<1>16. CASE PollAgain
  <2>1. held \in Pids /\ complete' = Append(complete, held) /\ held' = NoPid
        /\ UNCHANGED <<os, injob, parent, port, childids, processes>>
        /\ ~Signalled(held) /\ Closer(held)
    BY <1>16 DEF PollAgain, TypeInv, TypeOK, Holding
  <2>2. attempts' = [attempts EXCEPT ![held] = @ + 1]
    BY <1>16 DEF PollAgain
  <2>3. Told(p)' /\ Alive(p)'
    BY <1>1, <2>1 DEF Told, Alive
  <2>4. held' # p
    BY <2>1, ProcessGroupAssumption DEF ProcessGroupAssumption
  <2>5. CASE held = p
    <3>1. os[p] = "ended" /\ late[p] + attempts[p] <= MaxLate
      BY <1>1, <2>5 DEF Over
    <3>2. late'[p] = late[p] - 1 /\ attempts'[p] = attempts[p] + 1
      BY <1>3, <2>1, <2>2, <2>5, <3>1 DEF Closer
    <3>5. late[p] \in Nat /\ attempts[p] \in Nat
      BY <1>3
    <3>3. os'[p] = "ended" /\ late'[p] + attempts'[p] <= MaxLate
      BY <1>3, <2>1, <3>1, <3>2, <3>5
    <3>4. Asked(p)'
      BY <1>1, <1>2, <2>1, <2>5 DEF Asked
    <3> QED
      BY <2>3, <3>3, <3>4 DEF Over
  <2>6. CASE held # p
    <3>1. late'[p] = late[p] /\ attempts'[p] = attempts[p]
      BY <1>3, <2>1, <2>2, <2>6 DEF Closer
    <3>2. Lacks(complete', p) <=> Lacks(complete, p)
      BY <1>1, <2>1, <2>6, Queueing
    <3> QED
      BY <1>1, <2>1, <2>3, <2>4, <3>1, <3>2 DEF Asked, Over
  <2> QED
    BY <2>5, <2>6
<1>17. CASE Sigchld \/ TakeSigchld \/ WaitEmpty \/ UNCHANGED vars
  BY <1>5, <1>17 DEF Sigchld, TakeSigchld, WaitEmpty, vars
<1> QED
  BY <1>6, <1>7, <1>8, <1>10, <1>11, <1>12, <1>13, <1>14, <1>15, <1>16, <1>17
     DEF Next, JobEventTask, Main

\* What becomes of the report about one process is a step of Reaper.
LEMMA OneReport ==
  ASSUME NEW p \in Pids \ Unassigned,
         \A q \in (Pids \ Unassigned) \ {p} : reported'[q] = reported[q],
         \/ reported'[p] = reported[p]
         \/ reported[p] = "free" /\ reported'[p] \in {"running", "ended"}
         \/ reported[p] = "running" /\ reported'[p] = "ended"
         \/ reported[p] = "ended" /\ reported'[p] = "free"
  PROVE  [R!Next]_reported
<1> DEFINE S == Pids \ Unassigned
<1>1. reported = [q \in S |-> reported[q]] /\ reported' = [q \in S |-> reported'[q]]
  BY DEF reported
<1>2. reported' = [reported EXCEPT ![p] = reported'[p]]
  BY <1>1
<1>3. CASE reported'[p] = reported[p]
  BY <1>1, <1>2, <1>3
<1>4. CASE reported[p] = "free" /\ reported'[p] \in {"running", "ended"}
  BY <1>2, <1>4 DEF R!Next, R!Start
<1>5. CASE reported[p] = "running" /\ reported'[p] = "ended"
  BY <1>2, <1>5 DEF R!Next, R!End
<1>6. CASE reported[p] = "ended" /\ reported'[p] = "free"
  BY <1>2, <1>6 DEF R!Next, R!Report
<1> QED
  BY <1>3, <1>4, <1>5, <1>6

LEMMA ReaperMaps ==
  ASSUME Timely, TypeInv, Placed, TrackedOnce, JobInv, [Next]_vars
  PROVE  [R!Next]_reported
<1> DEFINE S == Pids \ Unassigned
<1>1. /\ os \in [Pids -> {"free", "running", "ended"}]
      /\ parent \in [Pids -> {"none", "tracking", "done"}] /\ late \in [Pids -> 0 .. MaxLate]
      /\ attempts \in [Pids -> 0 .. 2] /\ MaxLate \in Nat
  BY ProcessGroupAssumption DEF TypeInv, TypeOK, ProcessGroupAssumption
<1>2. \A q \in S : reported[q] = (IF parent[q] # "done" THEN "free"
                                  ELSE IF Signalled(q) THEN "ended" ELSE "running")
  BY DEF reported
<1>3. \A q \in S :
        reported'[q] = (IF parent'[q] # "done" THEN "free"
                        ELSE IF os'[q] = "ended" /\ late'[q] = 0 THEN "ended" ELSE "running")
  BY DEF reported, Signalled
<1>4. ASSUME NEW p \in Pids, \A q \in Pids \ {p} : UNCHANGED <<parent[q], os[q], late[q]>>
      PROVE  \A q \in S \ {p} : reported'[q] = reported[q]
  BY <1>2, <1>3, <1>4 DEF Signalled
<1>5. ASSUME NEW p \in Pids \ S, \A q \in Pids \ {p} : UNCHANGED <<parent[q], os[q], late[q]>>
      PROVE  reported' = reported
  BY <1>4, <1>5 DEF reported
<1> USE DEF osVars
<1>6. ASSUME UNCHANGED <<os, parent, late>> PROVE [R!Next]_reported
  BY <1>6 DEF reported, Signalled
<1>7. ASSUME NEW p \in Pids, Create(p) \/ Track(p) \/ Abandon(p) \/ Exit(p) PROVE [R!Next]_reported
  <2>1. \A q \in Pids \ {p} : UNCHANGED <<parent[q], os[q], late[q]>>
    BY <1>1, <1>7 DEF Create, Track, Abandon, Exit, Release
  <2>2. CASE p \in S
    <3>1. \A q \in S \ {p} : reported'[q] = reported[q]
      BY <1>4, <2>1
    <3>2. CASE Create(p) \/ Abandon(p)
      <4>1. parent[p] # "done" /\ parent'[p] # "done"
        BY <1>1, <3>2 DEF Create, Abandon, Release
      <4>2. reported'[p] = reported[p]
        BY <1>2, <1>3, <2>2, <4>1
      <4> QED
        BY <2>2, <3>1, <4>2, OneReport
    <3>3. CASE Track(p)
      <4>1. parent[p] # "done" /\ parent'[p] = "done"
        BY <1>1, <3>3 DEF Track
      <4>2. reported[p] = "free" /\ reported'[p] \in {"running", "ended"}
        BY <1>2, <1>3, <2>2, <4>1
      <4> QED
        BY <2>2, <3>1, <4>2, OneReport
    <3>4. CASE Exit(p)
      <4>1. os[p] = "running" /\ parent'[p] = parent[p]
        BY <3>4 DEF Exit
      <4>2. reported'[p] = reported[p] \/ (reported[p] = "running" /\ reported'[p] = "ended")
        BY <1>2, <1>3, <2>2, <4>1 DEF Signalled
      <4> QED
        BY <2>2, <3>1, <4>2, OneReport
    <3> QED
      BY <1>7, <3>2, <3>3, <3>4
  <2>3. CASE p \notin S
    BY <1>5, <2>1, <2>3
  <2> QED
    BY <2>2, <2>3
<1>8. ASSUME mpc = "poll"
      PROVE  /\ held \in Pids /\ parent[held] = "done"
             /\ held \in S => os[held] = "ended" /\ late[held] + attempts[held] <= MaxLate
  BY <1>8 DEF TypeInv, TypeOK, Holding, Placed, JobInv, Over
<1>9. CASE Poll \/ PollDrop
  <2>1. mpc = "poll" /\ Release(held) /\ late' = late
    BY <1>9 DEF Poll, PollDrop
  <2>2. held \in Pids /\ parent[held] = "done" /\ parent'[held] = "none"
        /\ \A q \in Pids \ {held} : UNCHANGED <<parent[q], os[q], late[q]>>
    BY <1>1, <1>8, <2>1 DEF Release
  <2>3. CASE held \in S
    <3>1. Signalled(held)
      <4>1. late[held] \in Nat /\ attempts[held] \in Nat
        BY <1>1, <2>2
      <4>2. CASE PollDrop
        BY <1>1, <1>8, <2>1, <2>3, <4>1, <4>2 DEF PollDrop, Signalled, Timely
      <4> QED
        BY <1>9, <4>2 DEF Poll
    <3>2. reported[held] = "ended" /\ reported'[held] = "free"
      BY <1>2, <1>3, <2>2, <2>3, <3>1
    <3>3. \A q \in S \ {held} : reported'[q] = reported[q]
      BY <1>4, <2>2
    <3> QED
      BY <2>3, <3>2, <3>3, OneReport
  <2>4. CASE held \notin S
    BY <1>5, <2>2, <2>4
  <2> QED
    BY <2>3, <2>4
<1>10. CASE PollAgain
  <2>1. held \in Pids /\ parent[held] = "done" /\ UNCHANGED <<os, parent>> /\ Closer(held)
        /\ ~Signalled(held)
    BY <1>8, <1>10 DEF PollAgain
  <2>2. \A q \in Pids \ {held} : UNCHANGED <<parent[q], os[q], late[q]>>
    BY <1>1, <2>1 DEF Closer
  <2>3. CASE held \in S
    <3>1. \A q \in S \ {held} : reported'[q] = reported[q]
      BY <1>4, <2>1, <2>2
    <3>2. reported[held] = "running" /\ reported'[held] \in {"running", "ended"}
      BY <1>2, <1>3, <2>1, <2>3
    <3> QED
      BY <2>3, <3>1, <3>2, OneReport
  <2>4. CASE held \notin S
    BY <1>5, <2>1, <2>2, <2>4
  <2> QED
    BY <2>3, <2>4
<1>11. ASSUME NEW p \in Pids, GetNew(p) \/ GetExit(p) \/ GetTrack(p) PROVE [R!Next]_reported
  BY <1>6, <1>11 DEF GetNew, GetExit, GetTrack
<1>12. CASE Sigchld \/ TakeSigchld \/ WaitEmpty \/ WaitPop \/ UNCHANGED vars
  BY <1>6, <1>12 DEF Sigchld, TakeSigchld, WaitEmpty, WaitPop, vars
<1> QED
  BY <1>7, <1>9, <1>10, <1>11, <1>12 DEF Next, JobEventTask, Main

\* JobEventTask, wait() and the signal pipe implement Reaper's safety: a process that the job
\* takes and track() is told of is reported once, after it has ended, and wait() gives none
\* up, in whatever order its notifications and track() arrive, for any number of processes,
\* failures of publish() and identifiers used again.
THEOREM ReaperSafety == ASSUME Timely PROVE Spec => R!Safety
<1>1. Init => R!Init
  BY DEF Init, R!Init, reported
<1>2. TypeInv /\ TrackedOnce => Placed
  BY OnePlace DEF TypeInv
<1> DEFINE Inv == GroupInv /\ Placed /\ JobInv
<1>3. Init => Inv
  BY GroupInit, JobInit, OnePlace DEF GroupInv, TypeInv
<1>4. GroupInv => Placed
  BY <1>2 DEF GroupInv
<1>5. GroupInv' => Placed'
  BY <1>4, PTL
<1>6. Inv /\ [Next]_vars => Inv'
  BY <1>5, GroupStep, JobStep DEF GroupInv
<1>7. Inv /\ [Next]_vars => [R!Next]_reported
  BY ReaperMaps DEF GroupInv
<1> QED
  BY <1>1, <1>3, <1>6, <1>7, PTL DEF Spec, R!Safety

-----------------------------------------------------------------------------
(* The group and the main thread side by side: neither moves the other's   *)
(* state.                                                                  *)

DispatchInv == GroupInv /\ SL!LoopInv

LEMMA DispatchInitial == DispatchInit => DispatchInv
<1> SUFFICES ASSUME DispatchInit PROVE DispatchInv
  OBVIOUS
<1>1. Init /\ SL!Init
  BY DEF DispatchInit
<1>2. GroupInv
  BY <1>1, GroupInit
<1>3. SL!LoopInv
  BY <1>1, DispatchAssumption, SL!LoopInit
<1> QED
  BY <1>2, <1>3 DEF DispatchInv

LEMMA DispatchStep ==
  DispatchInv /\ [DispatchNext]_<<part, vars, selectVars>>
    => DispatchInv' /\ [Next]_vars /\ [SL!Next]_SL!vars
<1> SUFFICES ASSUME DispatchInv, [DispatchNext]_<<part, vars, selectVars>>
             PROVE  DispatchInv' /\ [Next]_vars /\ [SL!Next]_SL!vars
  OBVIOUS
<1>1. UNCHANGED selectVars => UNCHANGED SL!vars
  BY DEF selectVars, SL!vars, SL!given, SL!svcVars, SL!procVars, SL!mainVars, SL!sigVars
<1>2. [Next]_vars
  BY DEF DispatchNext
<1>3. [SL!Next]_SL!vars
  BY <1>1 DEF DispatchNext
<1>4. GroupInv'
  BY <1>2, GroupStep DEF DispatchInv
<1>5. SL!LoopInv'
  BY <1>3, DispatchAssumption, SL!LoopStep DEF DispatchInv
<1> QED
  BY <1>2, <1>3, <1>4, <1>5 DEF DispatchInv

\* Both have their types in every state of the run's specification.
THEOREM TypesCorrect == DispatchSpec => []TypesOK
<1>1. DispatchInv => TypesOK
  BY DEF DispatchInv, TypesOK, GroupInv, TypeInv, SL!LoopInv
<1> QED
  BY <1>1, DispatchInitial, DispatchStep, PTL DEF DispatchSpec

\* select() watches the running services, they run with room for a child, and their
\* children are their unreaped processes: in every state of the run's specification.
THEOREM SelectRightKept == DispatchSpec => []SelectRight
<1>1. DispatchInv => SelectRight
  BY SL!LoopIsRight, DispatchAssumption DEF DispatchInv, SelectRight
<1> QED
  BY <1>1, DispatchInitial, DispatchStep, PTL DEF DispatchSpec

\* Room is looked at before a child is added, in every step of the run's specification.
THEOREM RoomAtRoundKept == DispatchSpec => RoomAtRound
<1>1. DispatchInv /\ [SL!Next]_SL!vars =>
        [\A s \in Services :
           ~(children'[s] \subseteq children[s]) /\ s \notin adjusted =>
             running[s] /\ ~SL!Exceeds(maxchild[s], SL!Count(s))]_SL!vars
  BY SL!RoomStep, DispatchAssumption DEF DispatchInv
<1> QED
  BY <1>1, DispatchInitial, DispatchStep, PTL DEF DispatchSpec, RoomAtRound, SL!RoomAtRound
=============================================================================

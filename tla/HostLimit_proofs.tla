-------------------------- MODULE HostLimit_proofs --------------------------
(***************************************************************************)
(* Proofs about HostLimit, for any hosts, workers and limits: cp_procs and *)
(* pr_conn agree, and the limit is kept where co_addr is the address.      *)
(***************************************************************************)
EXTENDS HostLimit, FiniteSetTheorems, TLAPS

\* What is assumed of the constants.
Sound ==
  /\ Nil \notin Conns /\ Nil \notin Procs /\ Main \notin Workers
  /\ Garbled \notin Hosts
  /\ IsFiniteSet(Procs)
  /\ Limits \subseteq Nat /\ \E n \in Limits : \A m \in Limits : m <= n

\* A procinfo is its worker's until addchild().
Forking ==
  /\ \A w \in Workers : tpc[w] = "fork" => tproc[w] \in made \ listed
  /\ \A w, v \in Workers : tpc[w] = "fork" /\ tpc[v] = "fork" /\ tproc[w] = tproc[v] => w = v

\* Whoever is in connections_free() has the list to itself.
Sweeping ==
  /\ sweep # {} => sweeping
  /\ sweeping => tpc[Main] \in {"sweep", "check", "delete"} /\ tconn[Main] \notin sweep

\* A conninfo that is referred to exists, and one that does not exist has no procinfos.
Refers ==
  ~down => /\ \A t \in Callers : /\ tconn[t] \in hooked \cup {Nil}
                                 /\ tpc[t] \in {"new", "fork", "check", "delete"} => tconn[t] \in hooked
           /\ sweep \subseteq hooked
           /\ \A c \in Conns \ hooked : procs[c] = {}

ListInv == TypeOK /\ Forking /\ Sweeping /\ Refers /\ Linked

-----------------------------------------------------------------------------
LEMMA ListInit == ASSUME Sound, Init PROVE ListInv
<1> USE DEF Init, Callers, Sound
<1>1. TypeOK
  BY DEF TypeOK
<1>2. Forking /\ Sweeping /\ Refers /\ Linked
  BY DEF Forking, Sweeping, Refers, Linked
<1> QED
  BY <1>1, <1>2 DEF ListInv

\* Search() finds a conninfo, or makes one.
Finds(w, h, c) == c \in hooked /\ addr[c] = h /\ Goto(w, "new", c) /\ UNCHANGED connVars

Makes(w, h, c) ==
  /\ \A d \in hooked : addr[d] # h
  /\ c \in Conns \ hooked
  /\ hooked' = hooked \cup {c}
  /\ addr' = [addr EXCEPT ![c] = IF copied = "address" THEN h ELSE Garbled]
  /\ max' = [max EXCEPT ![c] = limit]
  /\ Goto(w, "new", c) /\ UNCHANGED procs

LEMMA SearchDoes ==
  ASSUME hooked \subseteq Conns, NEW w \in Workers, NEW h \in Hosts, Search(w, h)
  PROVE  /\ ~down /\ tpc[w] = "idle" /\ ~sweeping
         /\ \E c \in Conns : Finds(w, h, c) \/ Makes(w, h, c)
         /\ thost' = [thost EXCEPT ![w] = h]
         /\ UNCHANGED <<copied, limit, procVars, tproc, reload, down>>
<1>1. CASE \E c \in hooked : addr[c] = h /\ Goto(w, "new", c) /\ UNCHANGED connVars
  BY <1>1 DEF Search, Finds
<1>2. CASE (\A c \in hooked : addr[c] # h) /\ hooked # Conns
  <2>1. (CHOOSE free \in Conns \ hooked : TRUE) \in Conns \ hooked
    BY <1>2
  <2> QED
    BY <1>1, <1>2, <2>1, Zenon DEF Search, Makes
<1> QED
  BY <1>1, <1>2, Zenon DEF Search

\* newproc() makes a procinfo, or there is no room.
Adds(w, p) ==
  /\ Cardinality(procs[tconn[w]]) < max[tconn[w]] /\ p \in Procs \ made
  /\ made' = made \cup {p}
  /\ prconn' = [prconn EXCEPT ![p] = tconn[w]]
  /\ prhost' = [prhost EXCEPT ![p] = thost[w]]
  /\ procs' = [procs EXCEPT ![tconn[w]] = @ \cup {p}]
  /\ tproc' = [tproc EXCEPT ![w] = p]
  /\ Goto(w, "fork", tconn[w])

Full(w) == Goto(w, "check", tconn[w]) /\ UNCHANGED <<procs, made, prconn, prhost, tproc>>

LEMMA NewProcDoes ==
  ASSUME made \subseteq Procs, NEW w \in Workers, NewProc(w)
  PROVE  /\ ~down /\ tpc[w] = "new"
         /\ Full(w) \/ \E p \in Procs : Adds(w, p)
         /\ thost' = [thost EXCEPT ![w] = Nil]
         /\ UNCHANGED <<copied, limit, hooked, addr, max, listed, reload, down>>
<1>1. CASE Full(w)
  BY <1>1, Zenon DEF NewProc
<1>2. CASE made # Procs
  <2>1. (CHOOSE free \in Procs \ made : TRUE) \in Procs \ made
    BY <1>2
  <2> QED
    BY <1>1, <2>1, Zenon DEF NewProc, Full, Adds
<1> QED
  BY <1>1, <1>2, Zenon DEF NewProc, Full

LEMMA TypeStep == ASSUME Sound, TypeOK, Forking, [Next]_vars PROVE TypeOK'
<1> USE DEF Sound, TypeOK, Callers, connVars, procVars, thread, reload, Goto, Done
<1>1. ASSUME NEW w \in Workers, NEW h \in Hosts, Search(w, h) PROVE TypeOK'
  <2>1. PICK c \in Conns : Finds(w, h, c) \/ Makes(w, h, c)
    BY <1>1, SearchDoes
  <2>2. thost' = [thost EXCEPT ![w] = h] /\ UNCHANGED <<copied, limit, procVars, tproc, reload, down>>
    BY <1>1, SearchDoes
  <2> QED
    BY <2>1, <2>2 DEF Finds, Makes
<1>2. ASSUME NEW w \in Workers, NewProc(w) PROVE TypeOK'
  <2>1. /\ thost' = [thost EXCEPT ![w] = Nil]
        /\ UNCHANGED <<copied, limit, hooked, addr, max, listed, reload, down>>
    BY <1>2, NewProcDoes
  <2>2. CASE Full(w)
    BY <2>1, <2>2 DEF Full
  <2>3. ASSUME NEW p \in Procs, Adds(w, p) PROVE TypeOK'
    BY <2>1, <2>3 DEF Adds
  <2> QED
    BY <1>2, <2>2, <2>3, NewProcDoes
<1>3. ASSUME NEW w \in Workers, Start(w) PROVE TypeOK'
  BY <1>3 DEF Start, Forking
<1>4. ASSUME NEW w \in Workers, GiveUp(w) PROVE TypeOK'
  BY <1>4 DEF GiveUp, FreeProc, Forking
<1>5. ASSUME NEW t \in Callers, Check(t) PROVE TypeOK'
  BY <1>5 DEF Check
<1>6. ASSUME NEW t \in Callers, Delete(t) PROVE TypeOK'
  BY <1>6 DEF Delete
<1>7. ASSUME NEW p \in Procs, Reap(p) PROVE TypeOK'
  BY <1>7 DEF Reap, FreeProc
<1>8. ASSUME NEW n \in Limits, Resize(n) PROVE TypeOK'
  BY <1>8 DEF Resize
<1>9. CASE StartSweep
  BY <1>9 DEF StartSweep
<1>10. ASSUME NEW c \in Conns, Sweep(c) PROVE TypeOK'
  BY <1>10 DEF Sweep
<1>11. CASE EndSweep
  BY <1>11 DEF EndSweep
<1>12. CASE UNCHANGED vars
  BY <1>12 DEF vars
<1> QED
  BY <1>1, <1>2, <1>3, <1>4, <1>5, <1>6, <1>7, <1>8, <1>9, <1>10, <1>11, <1>12 DEF Next

-----------------------------------------------------------------------------
LEMMA ForkingStep == ASSUME Sound, ListInv, [Next]_vars PROVE Forking'
<1> USE DEF Sound, ListInv, TypeOK, Callers, connVars, procVars, thread, reload, Goto, Done,
   Forking
<1>1. ASSUME NEW w \in Workers, NEW h \in Hosts, Search(w, h) PROVE Forking'
  <2>1. PICK c \in Conns : Finds(w, h, c) \/ Makes(w, h, c)
    BY <1>1, SearchDoes
  <2>2. /\ ~down /\ tpc[w] = "idle" /\ ~sweeping
        /\ thost' = [thost EXCEPT ![w] = h] /\ UNCHANGED <<copied, limit, procVars, tproc, reload, down>>
    BY <1>1, SearchDoes
  <2>3. CASE Finds(w, h, c)
    BY <2>2, <2>3 DEF Finds
  <2>4. CASE Makes(w, h, c)
    BY <2>2, <2>4 DEF Makes
  <2> QED
    BY <2>1, <2>3, <2>4
<1>2. ASSUME NEW w \in Workers, NewProc(w) PROVE Forking'
  <2>1. /\ ~down /\ tpc[w] = "new" /\ thost' = [thost EXCEPT ![w] = Nil]
        /\ UNCHANGED <<copied, limit, hooked, addr, max, listed, reload, down>>
    BY <1>2, NewProcDoes
  <2>2. CASE Full(w)
    BY <2>1, <2>2 DEF Full
  <2>3. ASSUME NEW p \in Procs, Adds(w, p) PROVE Forking'
    BY <2>1, <2>3 DEF Adds
  <2> QED
    BY <1>2, <2>2, <2>3, NewProcDoes
<1>3. ASSUME NEW w \in Workers, Start(w) PROVE Forking'
  BY <1>3 DEF Start
<1>4. ASSUME NEW w \in Workers, GiveUp(w) PROVE Forking'
  BY <1>4 DEF GiveUp, FreeProc
<1>5. ASSUME NEW t \in Callers, Check(t) PROVE Forking'
  BY <1>5 DEF Check
<1>6. ASSUME NEW t \in Callers, Delete(t) PROVE Forking'
  BY <1>6 DEF Delete
<1>7. ASSUME NEW p \in Procs, Reap(p) PROVE Forking'
  BY <1>7 DEF Reap, FreeProc
<1>8. ASSUME NEW n \in Limits, Resize(n) PROVE Forking'
  BY <1>8 DEF Resize
<1>9. CASE StartSweep
  BY <1>9 DEF StartSweep
<1>10. ASSUME NEW c \in Conns, Sweep(c) PROVE Forking'
  BY <1>10 DEF Sweep
<1>11. CASE EndSweep
  BY <1>11 DEF EndSweep
<1>12. CASE UNCHANGED vars
  BY <1>12 DEF vars
<1> QED
  BY <1>1, <1>2, <1>3, <1>4, <1>5, <1>6, <1>7, <1>8, <1>9, <1>10, <1>11, <1>12 DEF Next

LEMMA SweepingStep == ASSUME Sound, ListInv, [Next]_vars PROVE Sweeping'
<1> USE DEF Sound, ListInv, TypeOK, Callers, connVars, procVars, thread, reload, Goto, Done,
   Sweeping
<1>1. ASSUME NEW w \in Workers, NEW h \in Hosts, Search(w, h) PROVE Sweeping'
  <2>1. PICK c \in Conns : Finds(w, h, c) \/ Makes(w, h, c)
    BY <1>1, SearchDoes
  <2>2. /\ ~down /\ tpc[w] = "idle" /\ ~sweeping
        /\ thost' = [thost EXCEPT ![w] = h] /\ UNCHANGED <<copied, limit, procVars, tproc, reload, down>>
    BY <1>1, SearchDoes
  <2>3. CASE Finds(w, h, c)
    BY <2>2, <2>3 DEF Finds
  <2>4. CASE Makes(w, h, c)
    BY <2>2, <2>4 DEF Makes
  <2> QED
    BY <2>1, <2>3, <2>4
<1>2. ASSUME NEW w \in Workers, NewProc(w) PROVE Sweeping'
  <2>1. /\ ~down /\ tpc[w] = "new" /\ thost' = [thost EXCEPT ![w] = Nil]
        /\ UNCHANGED <<copied, limit, hooked, addr, max, listed, reload, down>>
    BY <1>2, NewProcDoes
  <2>2. CASE Full(w)
    BY <2>1, <2>2 DEF Full
  <2>3. ASSUME NEW p \in Procs, Adds(w, p) PROVE Sweeping'
    BY <2>1, <2>3 DEF Adds
  <2> QED
    BY <1>2, <2>2, <2>3, NewProcDoes
<1>3. ASSUME NEW w \in Workers, Start(w) PROVE Sweeping'
  BY <1>3 DEF Start
<1>4. ASSUME NEW w \in Workers, GiveUp(w) PROVE Sweeping'
  BY <1>4 DEF GiveUp, FreeProc
<1>5. ASSUME NEW t \in Callers, Check(t) PROVE Sweeping'
  BY <1>5 DEF Check
<1>6. ASSUME NEW t \in Callers, Delete(t) PROVE Sweeping'
  BY <1>6 DEF Delete
<1>7. ASSUME NEW p \in Procs, Reap(p) PROVE Sweeping'
  BY <1>7 DEF Reap, FreeProc
<1>8. ASSUME NEW n \in Limits, Resize(n) PROVE Sweeping'
  BY <1>8 DEF Resize
<1>9. CASE StartSweep
  BY <1>9 DEF StartSweep
<1>10. ASSUME NEW c \in Conns, Sweep(c) PROVE Sweeping'
  BY <1>10 DEF Sweep
<1>11. CASE EndSweep
  BY <1>11 DEF EndSweep
<1>12. CASE UNCHANGED vars
  BY <1>12 DEF vars
<1> QED
  BY <1>1, <1>2, <1>3, <1>4, <1>5, <1>6, <1>7, <1>8, <1>9, <1>10, <1>11, <1>12 DEF Next

LEMMA RefersStep == ASSUME Sound, ListInv, [Next]_vars PROVE Refers'
<1> USE DEF Sound, ListInv, TypeOK, Callers, connVars, procVars, thread, reload, Goto, Done,
   Refers, Sweeping, Forking
<1>1. ASSUME NEW w \in Workers, NEW h \in Hosts, Search(w, h) PROVE Refers'
  <2>1. PICK c \in Conns : Finds(w, h, c) \/ Makes(w, h, c)
    BY <1>1, SearchDoes
  <2>2. /\ ~down /\ tpc[w] = "idle" /\ ~sweeping
        /\ thost' = [thost EXCEPT ![w] = h] /\ UNCHANGED <<copied, limit, procVars, tproc, reload, down>>
    BY <1>1, SearchDoes
  <2>3. CASE Finds(w, h, c)
    BY <2>2, <2>3 DEF Finds
  <2>4. CASE Makes(w, h, c)
    BY <2>2, <2>4 DEF Makes
  <2> QED
    BY <2>1, <2>3, <2>4
<1>2. ASSUME NEW w \in Workers, NewProc(w) PROVE Refers'
  <2>1. /\ ~down /\ tpc[w] = "new" /\ thost' = [thost EXCEPT ![w] = Nil]
        /\ UNCHANGED <<copied, limit, hooked, addr, max, listed, reload, down>>
    BY <1>2, NewProcDoes
  <2>2. CASE Full(w)
    BY <2>1, <2>2 DEF Full
  <2>3. ASSUME NEW p \in Procs, Adds(w, p) PROVE Refers'
    BY <2>1, <2>3 DEF Adds
  <2> QED
    BY <1>2, <2>2, <2>3, NewProcDoes
<1>3. ASSUME NEW w \in Workers, Start(w) PROVE Refers'
  BY <1>3 DEF Start
<1>4. ASSUME NEW w \in Workers, GiveUp(w) PROVE Refers'
  BY <1>4 DEF GiveUp, FreeProc
<1>5. ASSUME NEW t \in Callers, Check(t) PROVE Refers'
  BY <1>5 DEF Check
<1>6. ASSUME NEW t \in Callers, Delete(t) PROVE Refers'
  BY <1>6, ZenonT(40) DEF Delete
<1>7. ASSUME NEW p \in Procs, Reap(p) PROVE Refers'
  <2>1. p \in made /\ (~down => prconn[p] \in hooked \cup {Nil})
    BY <1>7 DEF Reap, Linked
  <2> QED
    BY <1>7, <2>1 DEF Reap, FreeProc
<1>8. ASSUME NEW n \in Limits, Resize(n) PROVE Refers'
  BY <1>8 DEF Resize
<1>9. CASE StartSweep
  BY <1>9 DEF StartSweep
<1>10. ASSUME NEW c \in Conns, Sweep(c) PROVE Refers'
  BY <1>10 DEF Sweep
<1>11. CASE EndSweep
  BY <1>11 DEF EndSweep
<1>12. CASE UNCHANGED vars
  BY <1>12 DEF vars
<1> QED
  BY <1>1, <1>2, <1>3, <1>4, <1>5, <1>6, <1>7, <1>8, <1>9, <1>10, <1>11, <1>12 DEF Next

LEMMA LinkedStep == ASSUME Sound, ListInv, [Next]_vars PROVE Linked'
<1> USE DEF Sound, ListInv, TypeOK, Callers, connVars, procVars, thread, reload, Goto, Done,
   Linked, Refers
<1>1. ASSUME NEW w \in Workers, NEW h \in Hosts, Search(w, h) PROVE Linked'
  <2>1. PICK c \in Conns : Finds(w, h, c) \/ Makes(w, h, c)
    BY <1>1, SearchDoes
  <2>2. /\ ~down /\ tpc[w] = "idle" /\ ~sweeping
        /\ thost' = [thost EXCEPT ![w] = h] /\ UNCHANGED <<copied, limit, procVars, tproc, reload, down>>
    BY <1>1, SearchDoes
  <2>3. CASE Finds(w, h, c)
    BY <2>2, <2>3 DEF Finds
  <2>4. CASE Makes(w, h, c)
    BY <2>2, <2>4 DEF Makes
  <2> QED
    BY <2>1, <2>3, <2>4
<1>2. ASSUME NEW w \in Workers, NewProc(w) PROVE Linked'
  <2>1. /\ ~down /\ tpc[w] = "new" /\ thost' = [thost EXCEPT ![w] = Nil]
        /\ UNCHANGED <<copied, limit, hooked, addr, max, listed, reload, down>>
    BY <1>2, NewProcDoes
  <2>2. CASE Full(w)
    BY <2>1, <2>2 DEF Full
  <2>3. ASSUME NEW p \in Procs, Adds(w, p) PROVE Linked'
    BY <2>1, <2>3 DEF Adds
  <2> QED
    BY <1>2, <2>2, <2>3, NewProcDoes
<1>3. ASSUME NEW w \in Workers, Start(w) PROVE Linked'
  BY <1>3 DEF Start
<1>4. ASSUME NEW w \in Workers, GiveUp(w) PROVE Linked'
  BY <1>4 DEF GiveUp, FreeProc
<1>5. ASSUME NEW t \in Callers, Check(t) PROVE Linked'
  BY <1>5 DEF Check
<1>6. ASSUME NEW t \in Callers, Delete(t) PROVE Linked'
  <2>1. ~down /\ hooked' = hooked \ {tconn[t]} /\ UNCHANGED <<made, prconn>>
        /\ procs' = [procs EXCEPT ![tconn[t]] = {}]
        /\ (~down' => procs[tconn[t]] = {})
    BY <1>6, Zenon DEF Delete
  <2>2. ASSUME ~down', NEW c \in hooked' PROVE procs'[c] = {p \in made' : prconn'[p] = c}
    BY <2>1, <2>2
  <2>3. ASSUME ~down', NEW p \in made' PROVE prconn'[p] \in hooked' \cup {Nil}
    <3>1. prconn[p] \in hooked \cup {Nil} /\ p \in made /\ prconn'[p] = prconn[p]
      BY <2>1, <2>3
    <3>2. prconn[p] \in hooked => p \in procs[prconn[p]]
      BY <2>1, <3>1
    <3> QED
      BY <2>1, <2>3, <3>1, <3>2
  <2> QED
    BY <2>2, <2>3
<1>7. ASSUME NEW p \in Procs, Reap(p) PROVE Linked'
  BY <1>7 DEF Reap, FreeProc
<1>8. ASSUME NEW n \in Limits, Resize(n) PROVE Linked'
  BY <1>8 DEF Resize
<1>9. CASE StartSweep
  BY <1>9 DEF StartSweep
<1>10. ASSUME NEW c \in Conns, Sweep(c) PROVE Linked'
  BY <1>10 DEF Sweep
<1>11. CASE EndSweep
  BY <1>11 DEF EndSweep
<1>12. CASE UNCHANGED vars
  BY <1>12 DEF vars
<1> QED
  BY <1>1, <1>2, <1>3, <1>4, <1>5, <1>6, <1>7, <1>8, <1>9, <1>10, <1>11, <1>12 DEF Next

LEMMA ListStep == ASSUME Sound, ListInv, [Next]_vars PROVE ListInv'
BY TypeStep, ForkingStep, SweepingStep, RefersStep, LinkedStep DEF ListInv

\* The types of the limit's state hold in every reachable state.
THEOREM TypeCorrect == ASSUME Sound PROVE Spec => []TypeOK
<1>1. ListInv => TypeOK
  BY DEF ListInv
<1> QED
  BY <1>1, ListInit, ListStep, PTL DEF Spec

\* cp_procs and pr_conn agree, for any number of workers, conninfos and reloads: whoever
\* unlinks a procinfo, the other end is told, up to the moment a conninfo is deleted that
\* is still in use.
THEOREM ListsLinked == ASSUME Sound PROVE Spec => []Linked
<1>1. ListInv => Linked
  BY DEF ListInv
<1> QED
  BY <1>1, ListInit, ListStep, PTL DEF Spec

-----------------------------------------------------------------------------
(* The limit.                                                              *)

\* No conninfo has more procinfos than the largest limit.
Bounded == \A c \in Conns : Cardinality(procs[c]) <= MaxLimit

\* Where co_addr is the address, each address has one conninfo, which holds its procinfos.
Private ==
  ~down /\ copied = "address" =>
    /\ \A c, d \in hooked : addr[c] = addr[d] => c = d
    /\ \A p \in made : prconn[p] # Nil => prhost[p] = addr[prconn[p]]
    /\ \A w \in Workers : tpc[w] = "new" => thost[w] = addr[tconn[w]]

LEMMA LargestLimit == Sound => MaxLimit \in Nat /\ \A n \in Limits : n <= MaxLimit
<1> SUFFICES ASSUME Sound PROVE MaxLimit \in Nat /\ \A n \in Limits : n <= MaxLimit
  OBVIOUS
<1>1. \E n \in Limits : \A m \in Limits : m <= n
  BY DEF Sound
<1>2. MaxLimit \in Limits /\ \A m \in Limits : m <= MaxLimit
  BY <1>1, Zenon DEF MaxLimit
<1> QED
  BY <1>2 DEF Sound

LEMMA FewProcs ==
  ASSUME Sound, NEW S \in SUBSET Procs
  PROVE  IsFiniteSet(S) /\ Cardinality(S) \in Nat
<1>1. IsFiniteSet(S)
  BY FS_Subset DEF Sound
<1> QED
  BY <1>1, FS_CardinalityType

LEMMA PrivateStep == ASSUME Sound, ListInv, Private, [Next]_vars PROVE Private'
<1> USE DEF Sound, ListInv, TypeOK, Callers, connVars, procVars, thread, reload, Goto, Done,
   Private, Refers, Linked, Forking
<1>1. ASSUME NEW w \in Workers, NEW h \in Hosts, Search(w, h) PROVE Private'
  <2>1. PICK c \in Conns : Finds(w, h, c) \/ Makes(w, h, c)
    BY <1>1, SearchDoes
  <2>2. /\ ~down /\ tpc[w] = "idle" /\ ~sweeping
        /\ thost' = [thost EXCEPT ![w] = h] /\ UNCHANGED <<copied, limit, procVars, tproc, reload, down>>
    BY <1>1, SearchDoes
  <2>3. CASE Finds(w, h, c)
    BY <2>2, <2>3 DEF Finds
  <2>4. CASE Makes(w, h, c)
    BY <2>2, <2>4 DEF Makes
  <2> QED
    BY <2>1, <2>3, <2>4
<1>2. ASSUME NEW w \in Workers, NewProc(w) PROVE Private'
  <2>1. /\ ~down /\ tpc[w] = "new" /\ thost' = [thost EXCEPT ![w] = Nil]
        /\ UNCHANGED <<copied, limit, hooked, addr, max, listed, reload, down>>
    BY <1>2, NewProcDoes
  <2>2. CASE Full(w)
    BY <2>1, <2>2 DEF Full
  <2>3. ASSUME NEW p \in Procs, Adds(w, p) PROVE Private'
    BY <2>1, <2>3 DEF Adds
  <2> QED
    BY <1>2, <2>2, <2>3, NewProcDoes
<1>3. ASSUME NEW w \in Workers, Start(w) PROVE Private'
  BY <1>3 DEF Start
<1>4. ASSUME NEW w \in Workers, GiveUp(w) PROVE Private'
  BY <1>4 DEF GiveUp, FreeProc
<1>5. ASSUME NEW t \in Callers, Check(t) PROVE Private'
  BY <1>5 DEF Check
<1>6. ASSUME NEW t \in Callers, Delete(t) PROVE Private'
  <2>1. /\ ~down /\ hooked' = hooked \ {tconn[t]} /\ addr' = [addr EXCEPT ![tconn[t]] = Nil]
        /\ procs' = [procs EXCEPT ![tconn[t]] = {}]
        /\ (~down' => procs[tconn[t]] = {} /\ \A u \in Callers \ {t} : tconn[u] # tconn[t])
        /\ tpc' = [tpc EXCEPT ![t] = IF t = Main /\ sweeping THEN "sweep" ELSE "idle"]
        /\ tconn' = [tconn EXCEPT ![t] = Nil]
        /\ UNCHANGED <<copied, made, prconn, prhost, thost>>
    BY <1>6, Zenon DEF Delete, Done, Goto, procVars
  <2> SUFFICES ASSUME ~down', copied' = "address"
               PROVE  /\ \A c, d \in hooked' : addr'[c] = addr'[d] => c = d
                      /\ \A p \in made' : prconn'[p] # Nil => prhost'[p] = addr'[prconn'[p]]
                      /\ \A w \in Workers : tpc'[w] = "new" => thost'[w] = addr'[tconn'[w]]
    OBVIOUS
  <2>2. \A c, d \in hooked' : addr'[c] = addr'[d] => c = d
    BY <2>1
  <2>3. ASSUME NEW p \in made', prconn'[p] # Nil PROVE prhost'[p] = addr'[prconn'[p]]
    <3>1. p \in made /\ prconn[p] \in hooked /\ p \in procs[prconn[p]]
      BY <2>1, <2>3
    <3>2. prconn[p] # tconn[t]
      BY <2>1, <3>1
    <3> QED
      BY <2>1, <2>3, <3>1, <3>2
  <2>4. ASSUME NEW w \in Workers, tpc'[w] = "new" PROVE thost'[w] = addr'[tconn'[w]]
    <3>1. w # t /\ tpc[w] = "new" /\ tconn'[w] = tconn[w]
      BY <2>1, <2>4
    <3> QED
      BY <2>1, <2>4, <3>1
  <2> QED
    BY <2>2, <2>3, <2>4
<1>7. ASSUME NEW p \in Procs, Reap(p) PROVE Private'
  BY <1>7 DEF Reap, FreeProc
<1>8. ASSUME NEW n \in Limits, Resize(n) PROVE Private'
  BY <1>8 DEF Resize
<1>9. CASE StartSweep
  BY <1>9 DEF StartSweep
<1>10. ASSUME NEW c \in Conns, Sweep(c) PROVE Private'
  BY <1>10 DEF Sweep
<1>11. CASE EndSweep
  BY <1>11 DEF EndSweep
<1>12. CASE UNCHANGED vars
  BY <1>12 DEF vars
<1> QED
  BY <1>1, <1>2, <1>3, <1>4, <1>5, <1>6, <1>7, <1>8, <1>9, <1>10, <1>11, <1>12 DEF Next
LEMMA BoundedStep == ASSUME Sound, ListInv, Bounded, [Next]_vars PROVE Bounded'
<1> USE DEF Sound, ListInv, TypeOK, Bounded, connVars, procVars, thread, reload
<1> DEFINE Shrink == \A c \in Conns : procs'[c] \subseteq procs[c]
<1>0. ASSUME Shrink PROVE Bounded'
  <2> SUFFICES ASSUME NEW c \in Conns PROVE Cardinality(procs'[c]) <= MaxLimit
    OBVIOUS
  <2>1. IsFiniteSet(procs[c]) /\ Cardinality(procs[c]) \in Nat
    BY FewProcs
  <2>2. procs'[c] \subseteq procs[c] /\ procs'[c] \in SUBSET Procs
    BY <1>0
  <2>3. Cardinality(procs'[c]) \in Nat /\ Cardinality(procs'[c]) <= Cardinality(procs[c])
    BY <2>1, <2>2, FewProcs, FS_Subset
  <2>4. Cardinality(procs[c]) <= MaxLimit
    BY DEF Bounded
  <2>5. MaxLimit \in Nat
    BY LargestLimit
  <2> HIDE DEF TypeOK, Bounded, Sound, ListInv
  <2> QED
    BY <2>1, <2>3, <2>4, <2>5
<1>1. ASSUME NEW w \in Workers, NEW h \in Hosts, Search(w, h) PROVE Bounded'
  <2>1. UNCHANGED procs
    BY <1>1, SearchDoes, Zenon DEF Finds, Makes
  <2> QED
    BY <2>1
<1>2. ASSUME NEW w \in Workers, NewProc(w) PROVE Bounded'
  <2>1. CASE Full(w)
    BY <2>1 DEF Full
  <2>2. ASSUME NEW p \in Procs, Adds(w, p) PROVE Bounded'
    <3>1. procs' = [procs EXCEPT ![tconn[w]] = procs[tconn[w]] \cup {p}]
      BY <2>2 DEF Adds
    <3> SUFFICES ASSUME NEW c \in Conns PROVE Cardinality(procs'[c]) <= MaxLimit
      OBVIOUS
    <3>2. CASE c # tconn[w]
      BY <3>1, <3>2
    <3>3. CASE c = tconn[w]
      <4>1. procs'[c] = procs[c] \cup {p} /\ Cardinality(procs[c]) < max[c]
        BY <2>2, <3>1, <3>3 DEF Adds
      <4>2. IsFiniteSet(procs[c]) /\ Cardinality(procs[c]) \in Nat
        BY FewProcs
      <4>3. Cardinality(procs'[c]) <= Cardinality(procs[c]) + 1
        <5>1. Cardinality(procs[c] \cup {p}) = IF p \in procs[c] THEN Cardinality(procs[c]) ELSE Cardinality(procs[c]) + 1
          BY <4>2, FS_AddElement
        <5> HIDE DEF TypeOK, Bounded, Sound, ListInv
        <5> QED
          BY <4>1, <4>2, <5>1
      <4>4. Cardinality(procs'[c]) \in Nat
        BY <4>1, FewProcs
      <4>5. max[c] \in Nat /\ max[c] <= MaxLimit /\ MaxLimit \in Nat
        BY LargestLimit
      <4> QED
        BY <4>1, <4>2, <4>3, <4>4, <4>5
    <3> QED
      BY <3>2, <3>3
  <2> QED
    BY <1>2, <2>1, <2>2, NewProcDoes
<1>3. ASSUME NEW w \in Workers, Start(w) PROVE Bounded'
  BY <1>3 DEF Start
<1>4. ASSUME NEW w \in Workers, GiveUp(w) PROVE Bounded'
  <2>1. Shrink
    BY <1>4 DEF GiveUp, FreeProc
  <2> QED
    BY <1>0, <2>1
<1>5. ASSUME NEW t \in Callers, Check(t) PROVE Bounded'
  BY <1>5 DEF Check
<1>6. ASSUME NEW t \in Callers, Delete(t) PROVE Bounded'
  <2>1. procs' = [procs EXCEPT ![tconn[t]] = {}]
    BY <1>6, Zenon DEF Delete
  <2>2. Shrink
    BY <2>1
  <2> QED
    BY <1>0, <2>2
<1>7. ASSUME NEW p \in Procs, Reap(p) PROVE Bounded'
  <2>1. Shrink
    BY <1>7 DEF Reap, FreeProc
  <2> QED
    BY <1>0, <2>1
<1>8. ASSUME NEW n \in Limits, Resize(n) PROVE Bounded'
  BY <1>8 DEF Resize
<1>9. CASE StartSweep
  BY <1>9 DEF StartSweep
<1>10. ASSUME NEW c \in Conns, Sweep(c) PROVE Bounded'
  <2>1. Shrink
    BY <1>10 DEF Sweep
  <2> QED
    BY <1>0, <2>1
<1>11. CASE EndSweep
  BY <1>11 DEF EndSweep
<1>12. CASE UNCHANGED vars
  BY <1>12 DEF vars
<1> QED
  BY <1>1, <1>2, <1>3, <1>4, <1>5, <1>6, <1>7, <1>8, <1>9, <1>10, <1>11, <1>12 DEF Next

LimitInv == ListInv /\ Private /\ Bounded

LEMMA LimitInit == ASSUME Sound, Init PROVE LimitInv
<1>1. ListInv
  BY ListInit
<1>2. Private
  BY DEF Init, Private, Callers
<1>3. \A c \in Conns : Cardinality(procs[c]) = 0
  BY FS_EmptySet DEF Init
<1>4. Bounded
  BY <1>3, LargestLimit DEF Bounded
<1> QED
  BY <1>1, <1>2, <1>4 DEF LimitInv

\* The children of an address are the procinfos of its one conninfo.
LEMMA LimitHolds == ASSUME Sound, LimitInv PROVE PerHostAsMeant
<1> USE DEF LimitInv, ListInv, TypeOK
<1> SUFFICES ASSUME copied = "address", ~down, NEW h \in Hosts
             PROVE  Cardinality(ChildrenOf(h)) <= MaxLimit
  BY DEF PerHostAsMeant, PerHost
<1>1. CASE ChildrenOf(h) = {}
  BY <1>1, FS_EmptySet, LargestLimit
<1>2. ASSUME NEW p \in ChildrenOf(h) PROVE Cardinality(ChildrenOf(h)) <= MaxLimit
  <2> DEFINE c == prconn[p]
  <2>1. c \in hooked /\ c \in Conns /\ addr[c] = h
    BY <1>2 DEF ChildrenOf, Linked, Private
  <2>2. ChildrenOf(h) \subseteq procs[c]
    <3> SUFFICES ASSUME NEW q \in ChildrenOf(h) PROVE q \in procs[c]
      OBVIOUS
    <3>1. prconn[q] \in hooked /\ addr[prconn[q]] = h /\ q \in made
      BY DEF ChildrenOf, Linked, Private
    <3>2. prconn[q] = c
      BY <2>1, <3>1 DEF Private
    <3> QED
      BY <2>1, <3>1, <3>2 DEF Linked
  <2>3. IsFiniteSet(procs[c]) /\ Cardinality(procs[c]) \in Nat
    BY <2>1, FewProcs
  <2>4. Cardinality(ChildrenOf(h)) <= Cardinality(procs[c]) /\ Cardinality(procs[c]) <= MaxLimit
    BY <2>1, <2>2, <2>3, FS_Subset DEF Bounded
  <2>5. Cardinality(ChildrenOf(h)) \in Nat
    BY FewProcs DEF ChildrenOf
  <2> QED
    BY <2>3, <2>4, <2>5, LargestLimit
<1> QED
  BY <1>1, <1>2

\* With the address copied as it is meant, no address has more simultaneous invocations than
\* the largest limit configured, whatever workers, reaping and reloads do: the limit's
\* algorithm is right, and its one defect is what memcpy() copies.
THEOREM LimitAsMeant == ASSUME Sound PROVE Spec => []PerHostAsMeant
<1>1. LimitInv /\ [Next]_vars => LimitInv'
  BY ListStep, PrivateStep, BoundedStep DEF LimitInv
<1>2. LimitInv => PerHostAsMeant
  BY LimitHolds
<1> QED
  BY <1>1, <1>2, LimitInit, PTL DEF Spec
-----------------------------------------------------------------------------
(* As compiled.                                                            *)

\* Where co_addr is not the address, nobody finds a conninfo: the one a worker has made is
\* its own, and empty, until it has taken its procinfo.
Own ==
  ~down /\ copied = "pointer" =>
    /\ \A c \in hooked : addr[c] = Garbled
    /\ \A w, v \in Workers : tpc[w] = "new" /\ tconn[v] = tconn[w] => v = w
    /\ \A w \in Workers : tpc[w] = "new" => procs[tconn[w]] = {}

\* So no conninfo has two,
Single == copied = "pointer" => \A c \in Conns : \A p, q \in procs[c] : p = q

\* and while the limit stays one thread refers to it at a time: its worker, until the child
\* is listed, and then whoever reaps the child.
Apart ==
  copied = "pointer" /\ ~swept =>
    /\ ~down /\ ~sweeping
    /\ \A t, u \in Callers : tconn[t] = tconn[u] /\ tconn[t] # Nil => t = u
    /\ \A t \in Callers : tpc[t] \in {"check", "delete"} => procs[tconn[t]] = {}
    /\ \A w \in Workers : tpc[w] = "fork" => prconn[tproc[w]] = tconn[w]
    /\ \A t \in Callers : tpc[t] \in {"idle", "sweep"} => tconn[t] = Nil

OwnInv == Own /\ Single /\ Apart

LEMMA OwnStep == ASSUME Sound, ListInv, OwnInv, [Next]_vars PROVE Own'
<1> USE DEF Sound, ListInv, TypeOK, Callers, connVars, procVars, thread, reload, Goto, Done,
            OwnInv, Own, Single, Apart, Refers, Linked, Forking, Sweeping
<1>1. ASSUME NEW w \in Workers, NEW h \in Hosts, Search(w, h) PROVE Own'
  <2>1. PICK c \in Conns : Finds(w, h, c) \/ Makes(w, h, c)
    BY <1>1, SearchDoes
  <2>2. /\ ~down /\ tpc[w] = "idle" /\ ~sweeping
        /\ thost' = [thost EXCEPT ![w] = h] /\ UNCHANGED <<copied, limit, procVars, tproc, reload, down>>
    BY <1>1, SearchDoes
  <2>3. CASE Finds(w, h, c)
    BY <2>2, <2>3 DEF Finds
  <2>4. CASE Makes(w, h, c)
    BY <2>2, <2>4 DEF Makes
  <2> QED
    BY <2>1, <2>3, <2>4
<1>2. ASSUME NEW w \in Workers, NewProc(w) PROVE Own'
  <2>1. /\ ~down /\ tpc[w] = "new" /\ thost' = [thost EXCEPT ![w] = Nil]
        /\ UNCHANGED <<copied, limit, hooked, addr, max, listed, reload, down>>
    BY <1>2, NewProcDoes
  <2>2. CASE Full(w)
    BY <2>1, <2>2 DEF Full
  <2>3. ASSUME NEW p \in Procs, Adds(w, p) PROVE Own'
    BY <2>1, <2>3 DEF Adds
  <2> QED
    BY <1>2, <2>2, <2>3, NewProcDoes
<1>3. ASSUME NEW w \in Workers, Start(w) PROVE Own'
  BY <1>3 DEF Start
<1>4. ASSUME NEW w \in Workers, GiveUp(w) PROVE Own'
  BY <1>4 DEF GiveUp, FreeProc
<1>5. ASSUME NEW t \in Callers, Check(t) PROVE Own'
  BY <1>5 DEF Check
<1>6. ASSUME NEW t \in Callers, Delete(t) PROVE Own'
  BY <1>6 DEF Delete
<1>7. ASSUME NEW p \in Procs, Reap(p) PROVE Own'
  BY <1>7 DEF Reap, FreeProc
<1>8. ASSUME NEW n \in Limits, Resize(n) PROVE Own'
  BY <1>8 DEF Resize
<1>9. CASE StartSweep
  BY <1>9 DEF StartSweep
<1>10. ASSUME NEW c \in Conns, Sweep(c) PROVE Own'
  BY <1>10 DEF Sweep
<1>11. CASE EndSweep
  BY <1>11 DEF EndSweep
<1>12. CASE UNCHANGED vars
  BY <1>12 DEF vars
<1> QED
  BY <1>1, <1>2, <1>3, <1>4, <1>5, <1>6, <1>7, <1>8, <1>9, <1>10, <1>11, <1>12 DEF Next

LEMMA SingleStep == ASSUME Sound, ListInv, OwnInv, [Next]_vars PROVE Single'
<1> USE DEF Sound, ListInv, TypeOK, Callers, connVars, procVars, thread, reload, Goto, Done,
            OwnInv, Own, Single, Apart, Refers, Linked, Forking, Sweeping
<1>1. ASSUME NEW w \in Workers, NEW h \in Hosts, Search(w, h) PROVE Single'
  <2>1. PICK c \in Conns : Finds(w, h, c) \/ Makes(w, h, c)
    BY <1>1, SearchDoes
  <2>2. /\ ~down /\ tpc[w] = "idle" /\ ~sweeping
        /\ thost' = [thost EXCEPT ![w] = h] /\ UNCHANGED <<copied, limit, procVars, tproc, reload, down>>
    BY <1>1, SearchDoes
  <2>3. CASE Finds(w, h, c)
    BY <2>2, <2>3 DEF Finds
  <2>4. CASE Makes(w, h, c)
    BY <2>2, <2>4 DEF Makes
  <2> QED
    BY <2>1, <2>3, <2>4
<1>2. ASSUME NEW w \in Workers, NewProc(w) PROVE Single'
  <2>1. /\ ~down /\ tpc[w] = "new" /\ thost' = [thost EXCEPT ![w] = Nil]
        /\ UNCHANGED <<copied, limit, hooked, addr, max, listed, reload, down>>
    BY <1>2, NewProcDoes
  <2>2. CASE Full(w)
    BY <2>1, <2>2 DEF Full
  <2>3. ASSUME NEW p \in Procs, Adds(w, p) PROVE Single'
    BY <2>1, <2>3 DEF Adds
  <2> QED
    BY <1>2, <2>2, <2>3, NewProcDoes
<1>3. ASSUME NEW w \in Workers, Start(w) PROVE Single'
  BY <1>3 DEF Start
<1>4. ASSUME NEW w \in Workers, GiveUp(w) PROVE Single'
  BY <1>4 DEF GiveUp, FreeProc
<1>5. ASSUME NEW t \in Callers, Check(t) PROVE Single'
  BY <1>5 DEF Check
<1>6. ASSUME NEW t \in Callers, Delete(t) PROVE Single'
  BY <1>6 DEF Delete
<1>7. ASSUME NEW p \in Procs, Reap(p) PROVE Single'
  BY <1>7 DEF Reap, FreeProc
<1>8. ASSUME NEW n \in Limits, Resize(n) PROVE Single'
  BY <1>8 DEF Resize
<1>9. CASE StartSweep
  BY <1>9 DEF StartSweep
<1>10. ASSUME NEW c \in Conns, Sweep(c) PROVE Single'
  BY <1>10 DEF Sweep
<1>11. CASE EndSweep
  BY <1>11 DEF EndSweep
<1>12. CASE UNCHANGED vars
  BY <1>12 DEF vars
<1> QED
  BY <1>1, <1>2, <1>3, <1>4, <1>5, <1>6, <1>7, <1>8, <1>9, <1>10, <1>11, <1>12 DEF Next

LEMMA ApartStep == ASSUME Sound, ListInv, OwnInv, [Next]_vars PROVE Apart'
<1> USE DEF Sound, ListInv, TypeOK, Callers, connVars, procVars, thread, reload, Goto, Done,
            OwnInv, Own, Single, Apart, Refers, Linked, Forking, Sweeping
<1>1. ASSUME NEW w \in Workers, NEW h \in Hosts, Search(w, h) PROVE Apart'
  <2>1. PICK c \in Conns : Finds(w, h, c) \/ Makes(w, h, c)
    BY <1>1, SearchDoes
  <2>2. /\ ~down /\ tpc[w] = "idle" /\ ~sweeping
        /\ thost' = [thost EXCEPT ![w] = h] /\ UNCHANGED <<copied, limit, procVars, tproc, reload, down>>
    BY <1>1, SearchDoes
  <2>3. CASE Finds(w, h, c)
    BY <2>2, <2>3 DEF Finds
  <2>4. CASE Makes(w, h, c)
    BY <2>2, <2>4 DEF Makes
  <2> QED
    BY <2>1, <2>3, <2>4
<1>2. ASSUME NEW w \in Workers, NewProc(w) PROVE Apart'
  <2>1. /\ ~down /\ tpc[w] = "new" /\ thost' = [thost EXCEPT ![w] = Nil]
        /\ UNCHANGED <<copied, limit, hooked, addr, max, listed, reload, down>>
    BY <1>2, NewProcDoes
  <2>2. CASE Full(w)
    BY <2>1, <2>2 DEF Full
  <2>3. ASSUME NEW p \in Procs, Adds(w, p) PROVE Apart'
    BY <2>1, <2>3 DEF Adds
  <2> QED
    BY <1>2, <2>2, <2>3, NewProcDoes
<1>3. ASSUME NEW w \in Workers, Start(w) PROVE Apart'
  BY <1>3 DEF Start
<1>4. ASSUME NEW w \in Workers, GiveUp(w) PROVE Apart'
  BY <1>4 DEF GiveUp, FreeProc
<1>5. ASSUME NEW t \in Callers, Check(t) PROVE Apart'
  BY <1>5 DEF Check
<1>6. ASSUME NEW t \in Callers, Delete(t) PROVE Apart'
  BY <1>6 DEF Delete
<1>7. ASSUME NEW p \in Procs, Reap(p) PROVE Apart'
  BY <1>7, SMTT(30) DEF Reap, FreeProc
<1>8. ASSUME NEW n \in Limits, Resize(n) PROVE Apart'
  BY <1>8 DEF Resize
<1>9. CASE StartSweep
  BY <1>9 DEF StartSweep
<1>10. ASSUME NEW c \in Conns, Sweep(c) PROVE Apart'
  BY <1>10 DEF Sweep
<1>11. CASE EndSweep
  BY <1>11 DEF EndSweep
<1>12. CASE UNCHANGED vars
  BY <1>12 DEF vars
<1> QED
  BY <1>1, <1>2, <1>3, <1>4, <1>5, <1>6, <1>7, <1>8, <1>9, <1>10, <1>11, <1>12 DEF Next

LEMMA OwnInit == ASSUME Sound, Init PROVE OwnInv
BY DEF Init, Callers, Sound, OwnInv, Own, Single, Apart

\* A set without two elements.
LEMMA AtMostOne ==
  ASSUME NEW S, \A p, q \in S : p = q
  PROVE  Cardinality(S) <= 1
<1>1. CASE S = {}
  BY <1>1, FS_EmptySet
<1>2. ASSUME NEW p \in S PROVE Cardinality(S) <= 1
  <2>1. S = {p}
    BY <1>2
  <2>2. Cardinality({p}) = 1
    BY FS_Singleton
  <2> QED
    BY <2>1, <2>2
<1> QED
  BY <1>1, <1>2

LEMMA OwnHolds == ASSUME OwnInv, ListInv PROVE PrivateAsCompiled
<1> SUFFICES ASSUME copied = "pointer"
             PROVE  (\A c \in hooked : Cardinality(procs[c]) <= 1) /\ (down => swept)
  BY DEF PrivateAsCompiled
<1>1. ASSUME NEW c \in hooked PROVE Cardinality(procs[c]) <= 1
  <2>1. \A p, q \in procs[c] : p = q
    BY DEF OwnInv, Single, ListInv, TypeOK
  <2> QED
    BY <2>1, AtMostOne
<1>2. down => swept
  BY DEF OwnInv, Apart
<1> QED
  BY <1>1, <1>2

\* As compiled the limit refuses nobody, for no conninfo ever holds two children; and no
\* conninfo is deleted that is still referred to, for any number of workers and children, as
\* long as no configuration has removed the limit.
THEOREM HarmlessAsCompiled == ASSUME Sound PROVE Spec => []PrivateAsCompiled
<1>1. Init => ListInv /\ OwnInv
  BY ListInit, OwnInit
<1>2. (ListInv /\ OwnInv) /\ [Next]_vars => (ListInv /\ OwnInv)'
  BY ListStep, OwnStep, SingleStep, ApartStep DEF OwnInv
<1>3. ListInv /\ OwnInv => PrivateAsCompiled
  BY OwnHolds
<1> QED
  BY <1>1, <1>2, <1>3, PTL DEF Spec
=============================================================================

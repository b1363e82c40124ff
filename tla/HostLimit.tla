----------------------------- MODULE HostLimit -----------------------------
(***************************************************************************)
(* connprocs.cpp and its users in inetd.cpp: simultaneous invocations of   *)
(* one service from one address.  A conninfo on the service's list stands  *)
(* for an address and holds the procinfos of its children; workers take    *)
(* connections, the main thread reaps children and reads configurations.   *)
(* One list stands for the hash chains; the list and each connprocs have   *)
(* their lock, and nothing else protects a conninfo from being deleted.    *)
(***************************************************************************)
EXTENDS Naturals, FiniteSets

CONSTANTS
  Hosts, Workers, Main,
  Conns,        \* memory for conninfos
  Procs,        \* memory for procinfos
  Limits,       \* values of se_maxperip in the configurations; 0: no limit
  Copies,       \* subset of {"address", "pointer"}, see copied
  Garbled,      \* an address that getnameinfo() rejects
  Nil

Callers == Workers \cup {Main}

VARIABLES
  copied,       \* what memcpy() puts into co_addr: the "address", as it is meant, or, as the
                \* compiler reads "&ss", the "pointer" to it and what follows on the stack
  limit,        \* se_maxperip
  hooked,       \* conninfos on the list
  addr, max,    \* co_addr, cp_maxchild
  procs,        \* cp_procs
  made,         \* procinfos that exist
  prconn,       \* pr_conn
  prhost,       \* history: the address procinfo was made for
  listed,       \* procinfos whose child runs or has ended: inserted by addchild()
  tpc, tconn,   \* threads, and the conninfo each refers to
  tproc, thost, \* workers: procinfo and address of the connection
  sweep,        \* connections_free(): what it has still to visit
  sweeping, swept,  \* it is running, has ever run
  down          \* a conninfo was deleted that another thread or a procinfo refers to: nothing
                \* more is said

connVars == <<hooked, addr, max, procs>>
procVars == <<made, prconn, prhost, listed>>
thread   == <<tpc, tconn, tproc, thost>>
reload   == <<sweep, sweeping, swept>>
vars == <<copied, limit, connVars, procVars, thread, reload, down>>

TypeOK ==
  /\ copied \in Copies /\ limit \in Limits
  /\ hooked \subseteq Conns
  /\ addr \in [Conns -> Hosts \cup {Garbled, Nil}]
  /\ max \in [Conns -> Limits] /\ procs \in [Conns -> SUBSET Procs]
  /\ made \subseteq Procs /\ listed \subseteq made
  /\ prconn \in [Procs -> Conns \cup {Nil}] /\ prhost \in [Procs -> Hosts \cup {Nil}]
  /\ tpc \in [Callers -> {"idle", "new", "fork", "check", "delete", "sweep"}]
  /\ tconn \in [Callers -> Conns \cup {Nil}]
  /\ tproc \in [Workers -> Procs \cup {Nil}] /\ thost \in [Workers -> Hosts \cup {Nil}]
  /\ sweep \subseteq Conns /\ sweeping \in BOOLEAN /\ swept \in BOOLEAN
  /\ down \in BOOLEAN

Init ==
  /\ copied \in Copies /\ limit \in Limits \ {0}
  /\ hooked = {} /\ made = {} /\ listed = {}
  /\ addr = [c \in Conns |-> Nil] /\ max = [c \in Conns |-> limit]
  /\ procs = [c \in Conns |-> {}]
  /\ prconn = [p \in Procs |-> Nil] /\ prhost = [p \in Procs |-> Nil]
  /\ tpc = [t \in Callers |-> "idle"] /\ tconn = [t \in Callers |-> Nil]
  /\ tproc = [w \in Workers |-> Nil] /\ thost = [w \in Workers |-> Nil]
  /\ sweep = {} /\ sweeping = FALSE /\ swept = FALSE
  /\ down = FALSE

\* Thread t goes on to free_conn(c), or is done.
Goto(t, pc, c) == tpc' = [tpc EXCEPT ![t] = pc] /\ tconn' = [tconn EXCEPT ![t] = c]
Done(t) == Goto(t, IF t = Main /\ sweeping THEN "sweep" ELSE "idle", Nil)

-----------------------------------------------------------------------------
(* do_accept(), on a worker.                                               *)

SearchGarbled(w, h) ==  \* mutant: the address that is looked for is garbled in the same way
  /\ ~down /\ tpc[w] = "idle" /\ ~sweeping
  /\ LET key == IF copied = "address" THEN h ELSE Garbled IN
     \/ \E c \in hooked : addr[c] = key /\ Goto(w, "new", c) /\ UNCHANGED connVars
     \/ /\ \A c \in hooked : addr[c] # key
        /\ hooked # Conns
        /\ LET c == CHOOSE free \in Conns \ hooked : TRUE IN
             /\ hooked' = hooked \cup {c}
             /\ addr' = [addr EXCEPT ![c] = key]
             /\ max' = [max EXCEPT ![c] = limit]
             /\ Goto(w, "new", c)
        /\ UNCHANGED procs
  /\ thost' = [thost EXCEPT ![w] = h]
  /\ UNCHANGED <<copied, limit, procVars, tproc, reload, down>>

\* search_connections(): find the address, or insert it, under the lock of the list.
Search(w, h) ==
  /\ ~down /\ tpc[w] = "idle" /\ ~sweeping
  /\ \/ \E c \in hooked : addr[c] = h /\ Goto(w, "new", c) /\ UNCHANGED connVars
     \/ /\ \A c \in hooked : addr[c] # h
        /\ hooked # Conns
        /\ LET c == CHOOSE free \in Conns \ hooked : TRUE IN
             /\ hooked' = hooked \cup {c}
             /\ addr' = [addr EXCEPT ![c] = IF copied = "address" THEN h ELSE Garbled]
             /\ max' = [max EXCEPT ![c] = limit]
             /\ Goto(w, "new", c)
        /\ UNCHANGED procs
  /\ thost' = [thost EXCEPT ![w] = h]
  /\ UNCHANGED <<copied, limit, procVars, tproc, reload, down>>

NewProcOver(w) ==  \* mutant: one procinfo more than there is room for
  /\ ~down /\ tpc[w] = "new"
  /\ LET c == tconn[w] IN
     \/ /\ Cardinality(procs[c]) <= max[c] /\ made # Procs
        /\ LET p == CHOOSE free \in Procs \ made : TRUE IN
             /\ made' = made \cup {p}
             /\ prconn' = [prconn EXCEPT ![p] = c]
             /\ prhost' = [prhost EXCEPT ![p] = thost[w]]
             /\ procs' = [procs EXCEPT ![c] = @ \cup {p}]
             /\ tproc' = [tproc EXCEPT ![w] = p]
        /\ Goto(w, "fork", c)
     \/ /\ Cardinality(procs[c]) > max[c]
        /\ Goto(w, "check", c)
        /\ UNCHANGED <<procs, made, prconn, prhost, tproc>>
  /\ thost' = [thost EXCEPT ![w] = Nil]
  /\ UNCHANGED <<copied, limit, hooked, addr, max, listed, reload, down>>

\* new_connection(), connprocs::newproc(): a procinfo if there is room; otherwise the
\* connection is refused, and the conninfo deleted if it is unused.
NewProc(w) ==
  /\ ~down /\ tpc[w] = "new"
  /\ LET c == tconn[w] IN
     \/ /\ Cardinality(procs[c]) < max[c] /\ made # Procs
        /\ LET p == CHOOSE free \in Procs \ made : TRUE IN
             /\ made' = made \cup {p}
             /\ prconn' = [prconn EXCEPT ![p] = c]
             /\ prhost' = [prhost EXCEPT ![p] = thost[w]]
             /\ procs' = [procs EXCEPT ![c] = @ \cup {p}]
             /\ tproc' = [tproc EXCEPT ![w] = p]
        /\ Goto(w, "fork", c)
     \/ /\ Cardinality(procs[c]) >= max[c]
        /\ Goto(w, "check", c)
        /\ UNCHANGED <<procs, made, prconn, prhost, tproc>>
  /\ thost' = [thost EXCEPT ![w] = Nil]
  /\ UNCHANGED <<copied, limit, hooked, addr, max, listed, reload, down>>

\* do_fork() and addchild().
Start(w) ==
  /\ ~down /\ tpc[w] = "fork"
  /\ listed' = listed \cup {tproc[w]}
  /\ tproc' = [tproc EXCEPT ![w] = Nil]
  /\ Goto(w, "idle", Nil)
  /\ UNCHANGED <<copied, limit, connVars, made, prconn, prhost, thost, reload, down>>

FreeProcKeeps(p) ==  \* mutant: the conninfo keeps the procinfo
  /\ prconn' = [prconn EXCEPT ![p] = Nil] /\ prhost' = [prhost EXCEPT ![p] = Nil]
  /\ made' = made \ {p}
  /\ UNCHANGED procs

\* free_proc(): the procinfo leaves its conninfo, which exists while it holds one.
FreeProc(p) ==
  /\ procs' = [c \in Conns |-> IF c = prconn[p] THEN procs[c] \ {p} ELSE procs[c]]
  /\ prconn' = [prconn EXCEPT ![p] = Nil] /\ prhost' = [prhost EXCEPT ![p] = Nil]
  /\ made' = made \ {p}

\* The fork has failed, or the looping check ends the service: free_proc(), free_conn().
GiveUp(w) ==
  /\ ~down /\ tpc[w] = "fork"
  /\ FreeProc(tproc[w])
  /\ tproc' = [tproc EXCEPT ![w] = Nil]
  /\ Goto(w, "check", tconn[w])
  /\ UNCHANGED <<copied, limit, hooked, addr, max, listed, thost, reload, down>>

-----------------------------------------------------------------------------
(* free_conn(), on any thread.                                             *)

Check(t) ==
  /\ ~down /\ tpc[t] = "check"
  /\ IF procs[tconn[t]] = {} THEN Goto(t, "delete", tconn[t]) ELSE Done(t)
  /\ UNCHANGED <<copied, limit, connVars, procVars, tproc, thost, reload, down>>

\* remove_self_r() takes the lock of the list.
Delete(t) ==
  /\ ~down /\ tpc[t] = "delete"
  /\ t = Main \/ ~sweeping
  /\ LET c == tconn[t] IN
     /\ hooked' = hooked \ {c}
     /\ addr' = [addr EXCEPT ![c] = Nil] /\ max' = [max EXCEPT ![c] = limit]
     /\ procs' = [procs EXCEPT ![c] = {}]
     /\ down' = (procs[c] # {} \/ \E u \in Callers \ {t} : tconn[u] = c)
  /\ Done(t)
  /\ UNCHANGED <<copied, limit, procVars, tproc, thost, reload>>

-----------------------------------------------------------------------------
(* The main thread.                                                        *)

ReapStays(p) ==  \* mutant: the procinfo stays in the table
  /\ ~down /\ tpc[Main] = "idle" /\ p \in listed
  /\ FreeProc(p)
  /\ IF prconn[p] = Nil THEN UNCHANGED <<tpc, tconn>> ELSE Goto(Main, "check", prconn[p])
  /\ UNCHANGED <<copied, limit, hooked, addr, max, listed, tproc, thost, reload, down>>

\* reapchild(); pr_conn is read before free_proc() clears it.
Reap(p) ==
  /\ ~down /\ tpc[Main] = "idle" /\ p \in listed
  /\ listed' = listed \ {p}
  /\ FreeProc(p)
  /\ IF prconn[p] = Nil THEN UNCHANGED <<tpc, tconn>> ELSE Goto(Main, "check", prconn[p])
  /\ UNCHANGED <<copied, limit, hooked, addr, max, tproc, thost, reload, down>>

\* connections_resize() with a limit: for the conninfos there are.  se_maxperip stays.
Resize(n) ==
  /\ ~down /\ tpc[Main] = "idle" /\ n > 0
  /\ max' = [c \in Conns |-> IF c \in hooked THEN n ELSE max[c]]
  /\ UNCHANGED <<copied, limit, hooked, addr, procs, procVars, thread, reload, down>>

\* connections_resize() without: connections_free() visits all, with the list locked.
StartSweep ==
  /\ ~down /\ tpc[Main] = "idle" /\ 0 \in Limits
  /\ sweep' = hooked /\ sweeping' = TRUE /\ swept' = TRUE
  /\ Goto(Main, "sweep", Nil)
  /\ UNCHANGED <<copied, limit, connVars, procVars, tproc, thost, down>>

Sweep(c) ==
  /\ ~down /\ tpc[Main] = "sweep" /\ c \in sweep
  /\ sweep' = sweep \ {c}
  /\ prconn' = [p \in Procs |-> IF p \in procs[c] THEN Nil ELSE prconn[p]]
  /\ procs' = [procs EXCEPT ![c] = {}]
  /\ Goto(Main, "check", c)
  /\ UNCHANGED <<copied, limit, hooked, addr, max, made, prhost, listed, tproc, thost, sweeping, swept, down>>

EndSweep ==
  /\ ~down /\ tpc[Main] = "sweep" /\ sweep = {}
  /\ sweeping' = FALSE
  /\ Goto(Main, "idle", Nil)
  /\ UNCHANGED <<copied, limit, connVars, procVars, tproc, thost, sweep, swept, down>>

-----------------------------------------------------------------------------
Next ==
  \/ \E w \in Workers : (\E h \in Hosts : Search(w, h)) \/ NewProc(w) \/ Start(w) \/ GiveUp(w)
  \/ \E t \in Callers : Check(t) \/ Delete(t)
  \/ \E p \in Procs : Reap(p)
  \/ \E n \in Limits : Resize(n)
  \/ StartSweep \/ (\E c \in Conns : Sweep(c)) \/ EndSweep

Spec == Init /\ [][Next]_vars

-----------------------------------------------------------------------------
(* Properties.                                                             *)

\* cp_procs and pr_conn agree, whoever unlinks what: free_proc() on a worker or on the main
\* thread, clear() of a configuration without the limit.
Linked ==
  ~down => /\ \A c \in hooked : procs[c] = {p \in made : prconn[p] = c}
           /\ \A p \in made : prconn[p] \in hooked \cup {Nil}

\* The limit, as it is documented: simultaneous invocations from one address.
ChildrenOf(h) == {p \in made : prhost[p] = h /\ prconn[p] # Nil}
MaxLimit == CHOOSE n \in Limits : \A m \in Limits : m <= n
PerHost == ~down => \A h \in Hosts : Cardinality(ChildrenOf(h)) <= MaxLimit

\* It holds where co_addr is the address.
PerHostAsMeant == copied = "address" => PerHost

\* As compiled, no two connections share a conninfo.  So the limit refuses nobody; and only
\* because of that no conninfo is deleted that another thread refers to, unless a
\* configuration removes the limit while a worker is on its way.
PrivateAsCompiled ==
  copied = "pointer" =>
    /\ \A c \in hooked : Cardinality(procs[c]) <= 1
    /\ down => swept
=============================================================================

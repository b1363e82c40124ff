------------------------------- MODULE Inetd -------------------------------
(***************************************************************************)
(* The service core of inetd.cpp: the service table (struct servtab), the  *)
(* IOCP worker threads that accept connections and start children, the     *)
(* main thread that serves the queued signals (SIGCHLD, SIGALRM, SIGHUP,   *)
(* SIGTERM), the process table, and the retry timer.                       *)
(*                                                                         *)
(* The services are "stream nowait" services served by the completion port *)
(* (inetd -t N with N > 1), and the program is its release build: asserts  *)
(* and SANITY_CHECK are off.  Each action is a step between two points     *)
(* where another thread may run; whatever the code does under one lock is  *)
(* one step.                                                               *)
(***************************************************************************)
EXTENDS Integers, FiniteSets

CONSTANTS
  Services,     \* servtab objects
  Workers,      \* IOCP worker threads
  Pids,         \* process identifiers
  Limits,       \* values a configuration may give se_maxchild; 0 is "no limit"
  MaxLimit,     \* an upper bound of Limits
  TooMany,      \* params.toomany (-R); 0 turns the check off
  MaxAccepts,   \* bound: AcceptEx requests and completions counted per service
  Hazards,      \* what the environment is allowed to do, see HazardKinds
  NoService, NoPid

HazardKinds == {
  "quick child",    \* a child's exit is queued before its addchild() is over
  "pid reuse",      \* the system reuses the pid of a process inetd still lists
  "accept fails",   \* AcceptEx is refused (no socket, no buffers)
  "unsigned socket",\* SOCKET is unsigned: a new IOCPService::Socket is not Closed
  "socket fails",   \* socket() fails in setup()
  "bind fails",     \* bind() fails in setup()
  "reload",         \* SIGHUP is raised
  "new mapping",    \* a reloaded entry differs in se_nomapped (tcp6, tcp46)
  "bad config"}     \* a configuration file cannot be opened, or holds a bad entry

ASSUME InetdAssumption ==
  /\ NoService \notin Services
  /\ NoPid \notin Pids
  /\ IsFiniteSet(Workers)
  /\ IsFiniteSet(Pids)
  /\ Limits \subseteq 0 .. MaxLimit /\ Limits # {}
  /\ MaxLimit \in Nat \ {0}
  /\ TooMany \in Nat
  /\ MaxAccepts \in Nat \ {0}
  /\ Hazards \subseteq HazardKinds

VARIABLES
  \* the service table, one entry per servtab
  inTable,      \* services_: the servtabs of the current configuration
  enabled,      \* se_state.enabled
  running,      \* se_state.running
  fd,           \* se_fd >= 0
  maxchild,     \* se_maxchild
  secount,      \* se_count
  children,     \* se_children, as the pids of its procinfos
  \* the completion port
  accepts,      \* AcceptEx requests outstanding on the listener
  ready,        \* completions with a connection, not yet dequeued
  failed,       \* completions without one (cancelled, reset), not yet dequeued
  \* processes
  life,         \* "free", "running", or "exited": queued by JobEventTask for wait()
  owner,        \* history: the servtab a process was started for
  proctable,    \* "none", "hooked", or "freed": its procinfo was deleted while hooked
  \* worker threads
  wpc, wsvc, wpid,
  \* the main thread
  mpc, msvc, mpid, todo, mnew,
  \* signal pipe and timer
  signals,      \* signal numbers waiting in signalpipe
  pipe,         \* has body() created the signal pipe?
  timingout,    \* setalarm(): the timer is armed
  firing,       \* alarm_timer() has cleared timingout and not yet flagged SIGALRM
  down          \* "no", "term", "software" (terminate on the main thread), "corrupt"

svcVars  == <<inTable, enabled, running, fd, maxchild, secount, children>>
netVars  == <<accepts, ready, failed>>
procVars == <<life, owner, proctable>>
workVars == <<wpc, wsvc, wpid>>
mainVars == <<mpc, msvc, mpid, todo, mnew>>
sigVars  == <<signals, pipe, timingout, firing>>
vars == <<svcVars, netVars, procVars, workVars, mainVars, sigVars, down>>

WorkerPc == {"idle", "admit", "fork", "add", "link", "alarm"}
MainPc   == {"select", "reap", "search", "unlink", "free", "retry",
             "config", "adjust", "reset", "enable", "purge"}

TypeOK ==
  /\ inTable \subseteq Services
  /\ enabled \in [Services -> BOOLEAN]
  /\ running \in [Services -> BOOLEAN]
  /\ fd \in [Services -> BOOLEAN]
  /\ maxchild \in [Services -> Limits]
  /\ secount \in [Services -> 0 .. TooMany]
  /\ children \in [Services -> SUBSET Pids]
  /\ accepts \in [Services -> 0 .. MaxAccepts]
  /\ ready \in [Services -> 0 .. MaxAccepts]
  /\ failed \in [Services -> 0 .. MaxAccepts]
  /\ life \in [Pids -> {"free", "running", "exited"}]
  /\ owner \in [Pids -> Services \cup {NoService}]
  /\ proctable \in [Pids -> {"none", "hooked", "freed"}]
  /\ wpc \in [Workers -> WorkerPc]
  /\ wsvc \in [Workers -> Services \cup {NoService}]
  /\ wpid \in [Workers -> Pids \cup {NoPid}]
  /\ mpc \in MainPc
  /\ msvc \in Services \cup {NoService}
  /\ mpid \in Pids \cup {NoPid}
  /\ todo \subseteq Services
  /\ mnew \subseteq Services
  /\ signals \subseteq {"CHLD", "ALRM", "HUP", "TERM"}
  /\ pipe \in BOOLEAN
  /\ timingout \in BOOLEAN
  /\ firing \in BOOLEAN
  /\ down \in {"no", "term", "software", "corrupt"}

-----------------------------------------------------------------------------
(* Helpers on one service.                                                 *)

Count(s) == Cardinality(children[s])

\* SERVTAB_EXCEEDS_LIMITX
Exceeds(s, n) == maxchild[s] > 0 /\ n >= maxchild[s]

\* Threads between the check of se_state.running and the end of addchild().
Busy(w)     == wpc[w] \in {"admit", "fork", "add", "link"}
InFlight(s) == {w \in Workers : Busy(w) /\ wsvc[w] = s}

\* Who holds an intrusive_ptr to the servtab: the table, a worker inside
\* async_accept(), and the callback of every AcceptEx request.
Referenced(s) ==
  \/ s \in inTable
  \/ \E w \in Workers : wsvc[w] = s
  \/ accepts[s] + ready[s] + failed[s] > 0

\* pr_sep of p's procinfo is set while it is linked into some se_children; the servtab it
\* points to may be gone.
Linked(p) == \E s \in Services : p \in children[s]
Orphan(p) == \E s \in Services : p \in children[s] /\ ~Referenced(s)

Dangling == \E p \in Pids : proctable[p] = "freed"

Capped(n) == IF n > MaxAccepts THEN MaxAccepts ELSE n

Up == down = "no"

\* Use of a deleted procinfo or servtab is undefined: nothing is said of what follows.
Corrupt == /\ down' = "corrupt"
           /\ UNCHANGED <<svcVars, netVars, procVars, workVars, mainVars, sigVars>>

\* flag_signal(): before body() has created the pipe the write fails and is only logged.
\* The pipe is a set here: a repeated signal number is served once, in any order.
Flag(sig) == signals' = IF pipe THEN signals \cup {sig} ELSE signals

\* terminate() on the main thread throws out of body().
TerminateMain == down' = "software"

\* IOCPService::Accept: a socket that is not Closed, or an AcceptEx that fails, refuses.
AcceptTaken   == "unsigned socket" \notin Hazards
AcceptRefused == "unsigned socket" \in Hazards \/ "accept fails" \in Hazards

\* IOCPService::Cancel and Shutdown: every outstanding AcceptEx completes with an error;
\* completions that are already queued stay queued.
CancelAccepts(s) ==
  /\ accepts' = [accepts EXCEPT ![s] = 0]
  /\ failed' = [failed EXCEPT ![s] = Capped(@ + accepts[s])]
  /\ UNCHANGED ready

\* disable(sep): not closing.
Disable(s) ==
  /\ running' = [running EXCEPT ![s] = FALSE]
  /\ IF running[s] THEN CancelAccepts(s) ELSE UNCHANGED netVars

\* enable(sep), called by the main thread only.  Without a socket IOCPService::Listen
\* fails; that, and a refused AcceptEx, end in terminate().
Enable(s) ==
  IF running[s]
  THEN UNCHANGED <<running, netVars, down>>
  ELSE /\ running' = [running EXCEPT ![s] = TRUE]
       /\ UNCHANGED <<ready, failed>>
       /\ \/ /\ fd[s] /\ AcceptTaken
             /\ accepts' = [accepts EXCEPT ![s] = Capped(@ + 1)]
             /\ UNCHANGED down
          \/ /\ ~fd[s] \/ AcceptRefused
             /\ TerminateMain
             /\ UNCHANGED accepts

\* close_sep(sep): the listener is shut down, and the procinfos of se_children are
\* deleted although they are still hooked into proctable.
CloseSep(s) ==
  /\ running' = [running EXCEPT ![s] = FALSE]
  /\ fd' = [fd EXCEPT ![s] = FALSE]
  /\ IF fd[s] THEN CancelAccepts(s) ELSE UNCHANGED netVars
  /\ children' = [children EXCEPT ![s] = {}]
  /\ proctable' = [p \in Pids |-> IF p \in children[s] THEN "freed" ELSE proctable[p]]
  /\ secount' = [secount EXCEPT ![s] = 0]

\* setalarm(RETRYTIME): nothing while the timer is armed; deleting the previous timer
\* waits for its callback.
SetAlarm == /\ timingout \/ ~firing
            /\ timingout' = TRUE

\* setup(sep): a socket that cannot be created is given up without an alarm, a bind that
\* fails asks for a retry, and a listening socket is enabled.
Setup(s) ==
  \/ /\ fd' = [fd EXCEPT ![s] = TRUE]
     /\ running' = [running EXCEPT ![s] = TRUE]
     /\ UNCHANGED <<ready, failed, timingout>>
     /\ \/ /\ AcceptTaken
           /\ accepts' = [accepts EXCEPT ![s] = Capped(@ + 1)]
           /\ UNCHANGED down
        \/ AcceptRefused /\ TerminateMain /\ UNCHANGED accepts
  \/ "bind fails" \in Hazards /\ SetAlarm /\ UNCHANGED <<fd, running, netVars, down>>
  \/ "socket fails" \in Hazards /\ UNCHANGED <<fd, running, netVars, timingout, down>>

-----------------------------------------------------------------------------
(* The network, the processes and the timer.                               *)

\* A client's connection satisfies an outstanding AcceptEx.
Connect(s) ==
  /\ Up /\ accepts[s] > 0 /\ ready[s] < MaxAccepts
  /\ accepts' = [accepts EXCEPT ![s] = @ - 1]
  /\ ready' = [ready EXCEPT ![s] = @ + 1]
  /\ UNCHANGED <<failed, svcVars, procVars, workVars, mainVars, sigVars, down>>

\* An outstanding AcceptEx fails: the connection was reset before it was taken.
ConnectReset(s) ==
  /\ Up /\ accepts[s] > 0 /\ failed[s] < MaxAccepts
  /\ accepts' = [accepts EXCEPT ![s] = @ - 1]
  /\ failed' = [failed EXCEPT ![s] = @ + 1]
  /\ UNCHANGED <<ready, svcVars, procVars, workVars, mainVars, sigVars, down>>

\* A child ends; JobEventTask queues it for wait() and flags SIGCHLD.
ChildExit(p) ==
  /\ Up /\ life[p] = "running"
  /\ "quick child" \in Hazards \/ (pipe /\ \A w \in Workers : wpid[w] # p)
  /\ life' = [life EXCEPT ![p] = "exited"]
  /\ Flag("CHLD")
  /\ UNCHANGED <<svcVars, netVars, owner, proctable, workVars, mainVars,
                 pipe, timingout, firing, down>>

\* inetd_signal_reconfig()
RaiseHup ==
  /\ Up /\ "reload" \in Hazards /\ pipe /\ "HUP" \notin signals
  /\ Flag("HUP")
  /\ UNCHANGED <<svcVars, netVars, procVars, workVars, mainVars,
                 pipe, timingout, firing, down>>

\* alarm_timer(), first statement.  RETRYTIME is ten minutes: the pipe exists by then.
TimerExpire ==
  /\ Up /\ timingout /\ ~firing /\ pipe
  /\ timingout' = FALSE
  /\ firing' = TRUE
  /\ UNCHANGED <<svcVars, netVars, procVars, workVars, mainVars, signals, pipe, down>>

TimerFlag ==
  /\ Up /\ firing
  /\ firing' = FALSE
  /\ Flag("ALRM")
  /\ UNCHANGED <<svcVars, netVars, procVars, workVars, mainVars, pipe, timingout, down>>

Environment ==
  \/ \E s \in Services : Connect(s) \/ ConnectReset(s)
  \/ \E p \in Pids : ChildExit(p)
  \/ RaiseHup

Timer == TimerExpire \/ TimerFlag

-----------------------------------------------------------------------------
(* IOCP workers: async_accept(), do_accept(), addchild().                  *)

RearmNever(s) == UNCHANGED accepts  \* mutant: the next AcceptEx is forgotten

\* async_accept() under se_state.lock: a running service gets a new AcceptEx, whose
\* refusal is not looked at.
Rearm(s) ==
  IF running[s]
  THEN \/ AcceptTaken /\ accepts' = [accepts EXCEPT ![s] = Capped(@ + 1)]
       \/ AcceptRefused /\ UNCHANGED accepts
  ELSE UNCHANGED accepts

\* A connection is dequeued; one that finds its service stopped is dropped.
DequeueConnection(w, s) ==
  /\ Up /\ wpc[w] = "idle" /\ ready[s] > 0
  /\ ready' = [ready EXCEPT ![s] = @ - 1]
  /\ Rearm(s)
  /\ IF running[s]
     THEN /\ wpc' = [wpc EXCEPT ![w] = "admit"]
          /\ wsvc' = [wsvc EXCEPT ![w] = s]
     ELSE UNCHANGED <<wpc, wsvc>>
  /\ UNCHANGED <<failed, svcVars, procVars, wpid, mainVars, sigVars, down>>

DequeueFailureUnchecked(w, s) ==  \* mutant: a completion is taken from an empty queue
  /\ Up /\ wpc[w] = "idle"
  /\ failed' = [failed EXCEPT ![s] = @ - 1]
  /\ Rearm(s)
  /\ UNCHANGED <<ready, svcVars, procVars, workVars, mainVars, sigVars, down>>

\* A failed AcceptEx is dequeued: only the rearm happens.
DequeueFailure(w, s) ==
  /\ Up /\ wpc[w] = "idle" /\ failed[s] > 0
  /\ failed' = [failed EXCEPT ![s] = @ - 1]
  /\ Rearm(s)
  /\ UNCHANGED <<ready, svcVars, procVars, workVars, mainVars, sigVars, down>>

ToIdle(w) ==
  /\ wpc' = [wpc EXCEPT ![w] = "idle"]
  /\ wsvc' = [wsvc EXCEPT ![w] = NoService]
  /\ wpid' = [wpid EXCEPT ![w] = NoPid]

\* geoip(), cpmip() or accesstm() turns the client away.
Refuse(w) ==
  /\ Up /\ wpc[w] = "admit"
  /\ ToIdle(w)
  /\ UNCHANGED <<svcVars, netVars, procVars, mainVars, sigVars, down>>

\* se_count++ is not atomic: beside another thread at the same point it may be lost.
Incremented(w) ==
  LET s == wsvc[w]
  IN  {secount[s] + 1} \cup
      {secount[s] : v \in {u \in Workers \ {w} : wpc[u] = "admit" /\ wsvc[u] = s}}

\* do_accept(): the invocation is counted; a full window that is over (CNT_INTVL) starts
\* anew.
Admit(w) ==
  /\ Up /\ wpc[w] = "admit"
  /\ \E n \in Incremented(w) :
       secount' = [secount EXCEPT ![wsvc[w]] =
                     IF TooMany = 0 THEN 0
                     ELSE IF n >= TooMany THEN 1 ELSE n]
  /\ wpc' = [wpc EXCEPT ![w] = "fork"]
  /\ UNCHANGED <<inTable, enabled, running, fd, maxchild, children, netVars, procVars,
                 wsvc, wpid, mainVars, sigVars, down>>

\* do_accept(): "server failing (looping), service terminated".
Looping(w) ==
  /\ Up /\ wpc[w] = "admit"
  /\ TooMany > 0 /\ secount[wsvc[w]] > 0
  /\ \E n \in Incremented(w) : n >= TooMany
  /\ CloseSep(wsvc[w])
  /\ wpc' = [wpc EXCEPT ![w] = "alarm"]
  /\ UNCHANGED <<inTable, enabled, maxchild, life, owner, wsvc, wpid, mainVars,
                 sigVars, down>>

LoopingAlarmNone(w) ==  \* mutant: the service is closed and no retry is scheduled
  /\ Up /\ wpc[w] = "alarm"
  /\ ToIdle(w)
  /\ UNCHANGED <<svcVars, netVars, procVars, mainVars, sigVars, down>>

LoopingAlarm(w) ==
  /\ Up /\ wpc[w] = "alarm"
  /\ SetAlarm
  /\ ToIdle(w)
  /\ UNCHANGED <<svcVars, netVars, procVars, mainVars, signals, pipe, firing, down>>

\* do_fork(): the process is created and handed to ProcessGroup::track.  A pid that
\* another worker still holds is not given out again.
Fork(w, p) ==
  /\ Up /\ wpc[w] = "fork"
  /\ life[p] = "free" /\ \A v \in Workers : wpid[v] # p
  /\ "pid reuse" \in Hazards \/ (proctable[p] = "none" /\ mpid # p)
  /\ life' = [life EXCEPT ![p] = "running"]
  /\ owner' = [owner EXCEPT ![p] = wsvc[w]]
  /\ wpc' = [wpc EXCEPT ![w] = "add"]
  /\ wpid' = [wpid EXCEPT ![w] = p]
  /\ UNCHANGED <<svcVars, netVars, proctable, wsvc, mainVars, sigVars, down>>

ForkError(w) ==
  /\ Up /\ wpc[w] = "fork"
  /\ ToIdle(w)
  /\ UNCHANGED <<svcVars, netVars, procVars, mainVars, sigVars, down>>

\* addchild(), first part: search_proc(pid, proc) inserts the procinfo.
AddProc(w) ==
  LET p == wpid[w]
  IN  /\ Up /\ wpc[w] = "add" /\ proctable[p] = "none"
      /\ proctable' = [proctable EXCEPT ![p] = "hooked"]
      /\ wpc' = [wpc EXCEPT ![w] = "link"]
      /\ UNCHANGED <<svcVars, netVars, life, owner, wsvc, wpid, mainVars, sigVars, down>>

\* addchild(): "child already on process list" ends in terminate(), which off the main
\* thread flags SIGTERM.
AddDuplicate(w) ==
  /\ Up /\ wpc[w] = "add" /\ proctable[wpid[w]] = "hooked"
  /\ Flag("TERM")
  /\ ToIdle(w)
  /\ UNCHANGED <<svcVars, netVars, procVars, mainVars, pipe, timingout, firing, down>>

\* addchild(): the hash chain holds a deleted procinfo.
AddCorrupt(w) == Up /\ wpc[w] = "add" /\ Dangling /\ Corrupt

LinkNoDisable(w) ==  \* mutant: the limit is not looked at when a child is added
  LET p == wpid[w]
      s == wsvc[w]
  IN  /\ Up /\ wpc[w] = "link" /\ proctable[p] = "hooked"
      /\ children' = [children EXCEPT ![s] = @ \cup {p}]
      /\ ToIdle(w)
      /\ UNCHANGED <<inTable, enabled, running, fd, maxchild, secount, netVars, procVars,
                     mainVars, sigVars, down>>

LinkUnlessFull(w) ==  \* mutant: a child beyond the limit is not counted
  LET s == wsvc[w]
  IN  /\ Up /\ wpc[w] = "link" /\ proctable[wpid[w]] = "hooked"
      /\ children' = [children EXCEPT ![s] = IF Exceeds(s, Count(s)) THEN @ ELSE @ \cup {wpid[w]}]
      /\ Disable(s)
      /\ ToIdle(w)
      /\ UNCHANGED <<inTable, enabled, fd, maxchild, secount, procVars, mainVars,
                     sigVars, down>>

\* addchild(), second part, under se_state.lock: the child is counted, and at the limit
\* the service is disabled.
Link(w) ==
  LET p == wpid[w]
      s == wsvc[w]
  IN  /\ Up /\ wpc[w] = "link" /\ proctable[p] = "hooked"
      /\ children' = [children EXCEPT ![s] = @ \cup {p}]
      /\ IF Exceeds(s, Cardinality(children[s] \cup {p}))
         THEN Disable(s)
         ELSE UNCHANGED <<running, netVars>>
      /\ ToIdle(w)
      /\ UNCHANGED <<inTable, enabled, fd, maxchild, secount, procVars, mainVars,
                     sigVars, down>>

\* addchild(): reapchild() has meanwhile deleted the procinfo this thread still uses.
LinkCorrupt(w) == Up /\ wpc[w] = "link" /\ proctable[wpid[w]] # "hooked" /\ Corrupt

Worker(w) ==
  \/ \E s \in Services : DequeueConnection(w, s) \/ DequeueFailure(w, s)
  \/ Refuse(w) \/ Admit(w) \/ Looping(w) \/ LoopingAlarm(w)
  \/ \E p \in Pids : Fork(w, p)
  \/ ForkError(w)
  \/ AddProc(w) \/ AddDuplicate(w) \/ AddCorrupt(w)
  \/ Link(w) \/ LinkCorrupt(w)

-----------------------------------------------------------------------------
(* The main thread: the signal pipe, reapchildren() and reapchild().       *)

TakeSignal(sig) ==
  /\ Up /\ mpc = "select" /\ sig \in signals
  /\ signals' = signals \ {sig}
  /\ UNCHANGED <<pipe, timingout, firing>>

TakeChld ==
  /\ TakeSignal("CHLD")
  /\ mpc' = "reap"
  /\ UNCHANGED <<svcVars, netVars, procVars, workVars, msvc, mpid, todo, mnew, down>>

\* process_group.wait(nohang) hands out a finished child.
WaitChild(p) ==
  /\ Up /\ mpc = "reap" /\ life[p] = "exited"
  /\ life' = [life EXCEPT ![p] = "free"]
  /\ mpc' = "search" /\ mpid' = p
  /\ UNCHANGED <<svcVars, netVars, owner, proctable, workVars, msvc, todo, mnew,
                 sigVars, down>>

WaitNone ==
  /\ Up /\ mpc = "reap" /\ \A p \in Pids : life[p] # "exited"
  /\ mpc' = "select"
  /\ UNCHANGED <<svcVars, netVars, procVars, workVars, msvc, mpid, todo, mnew,
                 sigVars, down>>

\* reapchild(): "not found", the exit is forgotten.
SearchMiss ==
  /\ Up /\ mpc = "search" /\ proctable[mpid] = "none"
  /\ mpc' = "reap" /\ mpid' = NoPid
  /\ UNCHANGED <<svcVars, netVars, procVars, workVars, msvc, todo, mnew, sigVars, down>>

SearchHitStopped ==  \* mutant: the child of a service that is stopped is not uncounted
  /\ Up /\ mpc = "search" /\ proctable[mpid] = "hooked"
  /\ IF \E s \in Services : mpid \in children[s] /\ running[s]
     THEN mpc' = "unlink" /\ UNCHANGED mpid
     ELSE mpc' = "reap" /\ mpid' = NoPid
  /\ UNCHANGED <<svcVars, netVars, procVars, workVars, msvc, todo, mnew, sigVars, down>>

\* reapchild(): found; pr_sep is read without a lock and tells whether to unlink.
SearchHit ==
  /\ Up /\ mpc = "search" /\ proctable[mpid] = "hooked"
  /\ mpc' = IF Linked(mpid) THEN "unlink" ELSE "free"
  /\ UNCHANGED <<svcVars, netVars, procVars, workVars, msvc, mpid, todo, mnew,
                 sigVars, down>>

\* search_proc(): the hash chain holds a deleted procinfo.
SearchCorrupt == Up /\ mpc = "search" /\ Dangling /\ Corrupt

UnlinkNoEnable ==  \* mutant: a service at its limit is never enabled again
  \E s \in Services :
      /\ Up /\ mpc = "unlink" /\ mpid \in children[s] /\ Referenced(s)
      /\ children' = [children EXCEPT ![s] = @ \ {mpid}]
      /\ mpc' = "free"
      /\ UNCHANGED <<inTable, enabled, running, fd, maxchild, secount, netVars, procVars,
                     workVars, msvc, mpid, todo, mnew, sigVars, down>>

\* reapchild() under se_state.lock: the child is uncounted, and below the limit the
\* service is enabled.
Unlink ==
  \E s \in Services :
      /\ Up /\ mpc = "unlink" /\ mpid \in children[s] /\ Referenced(s)
      /\ children' = [children EXCEPT ![s] = @ \ {mpid}]
      /\ IF Exceeds(s, Cardinality(children[s] \ {mpid}))
         THEN UNCHANGED <<running, netVars, down>>
         ELSE Enable(s)
      /\ mpc' = "free"
      /\ UNCHANGED <<inTable, enabled, fd, maxchild, secount, procVars, workVars,
                     msvc, mpid, todo, mnew, sigVars>>

\* reapchild(): close_sep() has deleted the procinfo since it was found, or the servtab
\* it points to is gone.
UnlinkCorrupt ==
  /\ Up /\ mpc = "unlink"
  /\ proctable[mpid] = "freed" \/ Orphan(mpid)
  /\ Corrupt

FreeProcHooked ==  \* mutant: the procinfo is deleted and stays on its hash chain
  /\ Up /\ mpc = "free" /\ proctable[mpid] = "hooked"
  /\ proctable' = [proctable EXCEPT ![mpid] = "freed"]
  /\ mpc' = "reap" /\ mpid' = NoPid
  /\ UNCHANGED <<svcVars, netVars, life, owner, workVars, msvc, todo, mnew, sigVars, down>>

FreeProcOnce ==  \* mutant: one child is reaped for one SIGCHLD
  /\ Up /\ mpc = "free" /\ proctable[mpid] = "hooked"
  /\ children' = [s \in Services |-> children[s] \ {mpid}]
  /\ proctable' = [proctable EXCEPT ![mpid] = "none"]
  /\ mpc' = "select" /\ mpid' = NoPid
  /\ UNCHANGED <<inTable, enabled, running, fd, maxchild, secount, netVars, life,
                 owner, workVars, msvc, todo, mnew, sigVars, down>>

\* free_proc(): a procinfo that was linked after reapchild() looked is uncounted here,
\* and the service is not enabled.
FreeProc ==
  /\ Up /\ mpc = "free" /\ proctable[mpid] = "hooked"
  /\ ~Orphan(mpid)
  /\ children' = [s \in Services |-> children[s] \ {mpid}]
  /\ proctable' = [proctable EXCEPT ![mpid] = "none"]
  /\ mpc' = "reap" /\ mpid' = NoPid
  /\ UNCHANGED <<inTable, enabled, running, fd, maxchild, secount, netVars, life,
                 owner, workVars, msvc, todo, mnew, sigVars, down>>

FreeCorrupt ==
  /\ Up /\ mpc = "free"
  /\ proctable[mpid] = "freed" \/ Orphan(mpid)
  /\ Corrupt

Reap == \/ TakeChld \/ WaitNone \/ \E p \in Pids : WaitChild(p)
        \/ SearchMiss \/ SearchHit \/ SearchCorrupt
        \/ Unlink \/ UnlinkCorrupt \/ FreeProc \/ FreeCorrupt

-----------------------------------------------------------------------------
(* The main thread: retry(), and the end of body() on SIGTERM.             *)

TakeAlrm ==
  /\ TakeSignal("ALRM")
  /\ mpc' = "retry" /\ todo' = inTable
  /\ UNCHANGED <<svcVars, netVars, procVars, workVars, msvc, mpid, mnew, down>>

\* One turn of retry()'s loop, under se_state.lock.
Retry(s) ==
  /\ Up /\ mpc = "retry" /\ s \in todo
  /\ todo' = todo \ {s}
  /\ IF enabled[s] /\ ~fd[s]
     THEN Setup(s)
     ELSE UNCHANGED <<fd, running, netVars, timingout, down>>
  /\ UNCHANGED <<inTable, enabled, maxchild, secount, children, procVars, workVars,
                 mpc, msvc, mpid, mnew, signals, pipe, firing>>

RetryDone ==
  /\ Up /\ mpc = "retry" /\ todo = {}
  /\ mpc' = "select"
  /\ UNCHANGED <<svcVars, netVars, procVars, workVars, msvc, mpid, todo, mnew,
                 sigVars, down>>

TakeTerm ==
  /\ TakeSignal("TERM")
  /\ down' = "term"
  /\ UNCHANGED <<svcVars, netVars, procVars, workVars, mainVars>>

-----------------------------------------------------------------------------
(* The main thread: config(), called by body() and on SIGHUP.              *)

\* A servtab object that a new entry of the configuration may become.
Fresh(s) == ~Referenced(s) /\ children[s] = {}

TakeHup ==
  /\ TakeSignal("HUP")
  /\ mpc' = "config"
  /\ \E table \in SUBSET {s \in Services : s \in inTable \/ Fresh(s)} :
       mnew' = table /\ todo' = table
  /\ UNCHANGED <<svcVars, netVars, procVars, workVars, msvc, mpid, down>>

\* The file cannot be opened: config() returns and the old table stays.
TakeHupNoFile ==
  /\ "bad config" \in Hazards
  /\ TakeSignal("HUP")
  /\ UNCHANGED <<svcVars, netVars, procVars, workVars, mainVars, down>>

\* A bad entry ends the loop, and config() in terminate(cfgerr).
ConfigAbort ==
  /\ "bad config" \in Hazards
  /\ Up /\ mpc = "config" /\ todo # {}
  /\ TerminateMain
  /\ UNCHANGED <<svcVars, netVars, procVars, workVars, mainVars, sigVars>>

\* An entry of the current table: se_maxchild is replaced without the lock.
ConfigOld(s) ==
  /\ Up /\ mpc = "config" /\ s \in todo \cap inTable
  /\ todo' = todo \ {s} /\ msvc' = s /\ mpc' = "adjust"
  /\ \E n \in Limits : maxchild' = [maxchild EXCEPT ![s] = n]
  /\ UNCHANGED <<inTable, enabled, running, fd, secount, children, netVars, procVars,
                 workVars, mpid, mnew, sigVars, down>>

\* A new servtab.
ConfigNew(s) ==
  /\ Up /\ mpc = "config" /\ s \in todo \ inTable
  /\ todo' = todo \ {s} /\ msvc' = s /\ mpc' = "enable"
  /\ \E n \in Limits : maxchild' = [maxchild EXCEPT ![s] = n]
  /\ enabled' = [enabled EXCEPT ![s] = TRUE]
  /\ running' = [running EXCEPT ![s] = FALSE]
  /\ fd' = [fd EXCEPT ![s] = FALSE]
  /\ secount' = [secount EXCEPT ![s] = 0]
  /\ UNCHANGED <<inTable, children, netVars, procVars, workVars, mpid, mnew, sigVars, down>>

\* Under se_state.lock: "might need to turn on or off service now".
ConfigAdjust ==
  /\ Up /\ mpc = "adjust"
  /\ IF fd[msvc] /\ Exceeds(msvc, Count(msvc))
     THEN Disable(msvc)
     ELSE UNCHANGED <<running, netVars>>
  /\ mpc' = "reset"
  /\ UNCHANGED <<inTable, enabled, fd, maxchild, secount, children, procVars, workVars,
                 msvc, mpid, todo, mnew, sigVars, down>>

\* se_reset: se_nomapped differs, and an open service is closed.  (se_port of an entry that
\* stays is never replaced, so another port does not come here.)
ConfigReset ==
  /\ Up /\ mpc = "reset"
  /\ "new mapping" \in Hazards /\ fd[msvc]
  /\ CloseSep(msvc)
  /\ mpc' = "enable"
  /\ UNCHANGED <<inTable, enabled, maxchild, life, owner, workVars, msvc, mpid, todo,
                 mnew, sigVars, down>>

ConfigKeep ==
  /\ Up /\ mpc = "reset"
  /\ mpc' = "enable"
  /\ UNCHANGED <<svcVars, netVars, procVars, workVars, msvc, mpid, todo, mnew,
                 sigVars, down>>

\* Under se_state.lock: set up, or enabled below its limit.
ConfigEnable ==
  /\ Up /\ mpc = "enable"
  /\ IF enabled[msvc] /\ ~fd[msvc] THEN Setup(msvc)
     ELSE /\ IF enabled[msvc] /\ ~Exceeds(msvc, Count(msvc))
             THEN Enable(msvc)
             ELSE UNCHANGED <<running, netVars, down>>
          /\ UNCHANGED <<fd, timingout>>
  /\ mpc' = "config" /\ msvc' = NoService
  /\ UNCHANGED <<inTable, enabled, maxchild, secount, children, procVars, workVars,
                 mpid, todo, mnew, signals, pipe, firing>>

\* services_.swap(t_services)
ConfigSwap ==
  /\ Up /\ mpc = "config" /\ todo = {}
  /\ inTable' = mnew /\ todo' = inTable \ mnew
  /\ mpc' = "purge"
  /\ UNCHANGED <<enabled, running, fd, maxchild, secount, children, netVars, procVars,
                 workVars, msvc, mpid, mnew, sigVars, down>>

ConfigPurgeKeepsSocket(s) ==  \* mutant: a removed service is forgotten, not closed
  /\ Up /\ mpc = "purge" /\ s \in todo
  /\ todo' = todo \ {s}
  /\ enabled' = [enabled EXCEPT ![s] = FALSE]
  /\ UNCHANGED <<inTable, running, fd, maxchild, secount, children, netVars, procVars,
                 workVars, mpc, msvc, mpid, mnew, sigVars, down>>

\* close_sep(sep, true) for a service that is no longer configured.
ConfigPurge(s) ==
  /\ Up /\ mpc = "purge" /\ s \in todo
  /\ todo' = todo \ {s}
  /\ CloseSep(s)
  /\ enabled' = [enabled EXCEPT ![s] = FALSE]
  /\ UNCHANGED <<inTable, maxchild, life, owner, workVars, mpc, msvc, mpid, mnew,
                 sigVars, down>>

\* config() returns; the first time, body() then creates the signal pipe.
ConfigDone ==
  /\ Up /\ mpc = "purge" /\ todo = {}
  /\ mpc' = "select" /\ pipe' = TRUE
  /\ UNCHANGED <<svcVars, netVars, procVars, workVars, msvc, mpid, todo, mnew,
                 signals, timingout, firing, down>>

Config == \/ TakeHup \/ TakeHupNoFile \/ ConfigAbort
          \/ \E s \in Services : ConfigOld(s) \/ ConfigNew(s) \/ ConfigPurge(s)
          \/ ConfigAdjust \/ ConfigReset \/ ConfigKeep \/ ConfigEnable
          \/ ConfigSwap \/ ConfigDone

Main == Reap \/ TakeAlrm \/ (\E s \in Services : Retry(s)) \/ RetryDone \/ TakeTerm \/ Config

-----------------------------------------------------------------------------
\* body() enters config() with an empty table; the workers already run.
Init ==
  /\ inTable = {}
  /\ enabled = [s \in Services |-> FALSE]
  /\ running = [s \in Services |-> FALSE]
  /\ fd = [s \in Services |-> FALSE]
  /\ maxchild = [s \in Services |-> CHOOSE n \in Limits : TRUE]
  /\ secount = [s \in Services |-> 0]
  /\ children = [s \in Services |-> {}]
  /\ accepts = [s \in Services |-> 0]
  /\ ready = [s \in Services |-> 0]
  /\ failed = [s \in Services |-> 0]
  /\ life = [p \in Pids |-> "free"]
  /\ owner = [p \in Pids |-> NoService]
  /\ proctable = [p \in Pids |-> "none"]
  /\ wpc = [w \in Workers |-> "idle"]
  /\ wsvc = [w \in Workers |-> NoService]
  /\ wpid = [w \in Workers |-> NoPid]
  /\ mpc = "config" /\ msvc = NoService /\ mpid = NoPid
  /\ mnew \in SUBSET Services /\ mnew # {} /\ todo = mnew
  /\ signals = {} /\ pipe = FALSE
  /\ timingout = FALSE /\ firing = FALSE
  /\ down = "no"

Next == Environment \/ Timer \/ (\E w \in Workers : Worker(w)) \/ Main

Spec == Init /\ [][Next]_vars

\* Threads that can run do run, and the timer goes off.  Nothing is assumed of clients, of
\* how long children run, or of signals from outside; a bind() that is tried again and
\* again succeeds in the end; the signal pipe and ProcessGroup::wait serve in turn.
Fairness ==
  /\ WF_vars(Main) /\ WF_vars(Timer)
  /\ \A w \in Workers : WF_vars(Worker(w))
  /\ SF_vars(TakeChld) /\ SF_vars(TakeAlrm)
  /\ \A p \in Pids : SF_vars(WaitChild(p))
  /\ \A s \in Services : SF_vars(Retry(s) /\ (enabled[s] => fd'[s]))

FairSpec == Spec /\ Fairness

-----------------------------------------------------------------------------
(* Properties.                                                             *)

\* The main thread is between the unlocked update of s and the end of its config() turn.
Reconfiguring(s) == msvc = s /\ mpc \in {"adjust", "reset", "enable"}

\* A configured service with a socket is stopped only while it is at its limit: no order
\* of addchild(), reapchild(), config() and retry() leaves it stopped with room for a child.
NoStuckService ==
  \A s \in Services :
    Up /\ enabled[s] /\ fd[s] /\ ~running[s] /\ ~Reconfiguring(s) => Exceeds(s, Count(s))

\* A running service always has an AcceptEx request outstanding or a completion on its way
\* to a worker that will post the next one (the rearm of async_accept()).
RunningIsListening ==
  \A s \in Services : Up /\ running[s] => accepts[s] + ready[s] + failed[s] > 0

\* se_children counts only processes that are still to be reaped, each under the service
\* that started it: a child is uncounted before wait() hands out the next one.
NoPhantomChild ==
  \A p \in Pids, s \in Services :
    Up /\ p \in children[s] => owner[p] = s /\ (life[p] # "free" \/ mpid = p)

\* A process that no thread is handling is counted by the service that started it, so the
\* limit is applied to the processes that really exist.
NoForgottenChild ==
  \A p \in Pids :
    Up /\ life[p] # "free" /\ (\A w \in Workers : wpid[w] # p) => p \in children[owner[p]]

\* The children that are counted are those that are there: none is counted after it has gone,
\* and none that is there is forgotten.
ChildrenCounted == NoPhantomChild /\ NoForgottenChild

\* Nothing that clients, children and a busy port can do ends the daemon: neither
\* terminate() on the main thread nor the SIGTERM a worker's terminate() leaves behind.
DaemonUp == Up /\ "TERM" \notin signals

\* How far se_maxchild can be overshot: the workers that saw the service running before
\* the last addchild() disabled it may each add one more.
OvershootByWorkers ==
  \A s \in Services :
    maxchild[s] > 0 => Count(s) + Cardinality(InFlight(s)) < maxchild[s] + Cardinality(Workers)

\* The same when limits change by SIGHUP and services are closed and reopened with
\* children left over: no more than one child per worker above the largest of the limits
\* (less one) and the number of workers.
ChildBound == IF MaxLimit - 1 >= Cardinality(Workers) THEN MaxLimit - 1 ELSE Cardinality(Workers)

Overshoot ==
  0 \notin Limits =>
    \A s \in Services :
      Count(s) + Cardinality(InFlight(s)) <= ChildBound + Cardinality(Workers)

\* The limit and the accounting of children through every reload: no more children than
\* Overshoot allows, no service that has room and stays off, no child that is counted after
\* it has gone, and a running service that listens.
Accounting == Overshoot /\ NoStuckService /\ NoPhantomChild /\ RunningIsListening

\* config() and close_sep() leave a service that is not in the table closed for good: a
\* connection that was accepted earlier cannot start it again.
RemovedIsClosed ==
  \A s \in Services :
    Up /\ mpc = "select" /\ s \notin inTable => ~fd[s] /\ ~running[s]

\* An exited child is eventually waited for, whatever else the main thread has to do.
Reaped == \A p \in Pids : life[p] = "exited" ~> (life[p] = "free" \/ ~Up)

\* A configured service that has no socket (bind() failed, or closed as looping) is
\* eventually opened again (retry(), inetd.txt "reenabled automatically"), unless the daemon
\* has ended.
Reopened == \A s \in Services : (s \in inTable /\ ~fd[s]) ~> (fd[s] \/ ~Up)

\* Claims of inetd.txt and of comments that the code does not keep; see README.md.

\* inetd.txt: "further connection attempts will be queued up until an existing child process
\* exits": what waits at the limit waits for a process.
AtLimitHasChild ==
  \A s \in Services :
    Up /\ enabled[s] /\ fd[s] /\ ~running[s] =>
      \E p \in Pids : owner[p] = s /\ (life[p] # "free" \/ mpid = p)

\* An accepted connection of an open service is given to a worker to serve, not dropped.
QueuedNotDropped ==
  [][\A s \in Services :
       ready'[s] < ready[s] /\ enabled[s] /\ fd[s] =>
         \E w \in Workers : wsvc[w] = NoService /\ wsvc'[w] = s]_vars

=============================================================================

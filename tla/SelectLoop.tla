----------------------------- MODULE SelectLoop -----------------------------
(***************************************************************************)
(* body() of inetd.cpp without IOCP workers (maxthread is 0 unless -t is   *)
(* given): one thread waits in select() for the sockets of the running     *)
(* services and for the signal pipe, serves the signals that have come,    *)
(* and then every service whose socket was readable when select()          *)
(* returned.  "nowait" services have their connections accepted, "wait"    *)
(* services are given their socket, and the datagram builtins are served   *)
(* on the spot.                                                            *)
(*                                                                         *)
(* Clients, children and the timer run beside the thread and share with it *)
(* the sockets, the queue of wait(), and the signal pipe only: what it     *)
(* does between two looks at those is one step.                            *)
(***************************************************************************)
EXTENDS Integers, FiniteSets

CONSTANTS
  Services,     \* servtab objects
  Streams,      \* those with se_socktype SOCK_STREAM; a file may make them wait or nowait
  Builtins,     \* the datagram builtins; other datagram services wait
  Pids,         \* process identifiers
  Fds,          \* descriptors the system gives out for se_fd
  PipeFd,       \* signalpipe[0]
  FdMax,        \* FD_SETSIZE: FD_SET on a full set does nothing
  Limits,       \* values a configuration may give se_maxchild of "nowait"; 0 is "no limit"
  MaxLimit,     \* an upper bound of Limits
  Rates,        \* values of params.toomany (-R); 0 turns the check off
  MaxRate,      \* an upper bound of Rates
  MaxWaiting,   \* bound: clients that wait on one socket
  NoFd, NoService

SelectAssumption ==
  /\ Streams \subseteq Services /\ Builtins \subseteq Services \ Streams
  /\ IsFiniteSet(Pids) /\ IsFiniteSet(Fds)
  /\ PipeFd \notin Fds /\ NoFd \notin Fds \cup {PipeFd}
  /\ NoService \notin Services
  /\ FdMax \in Nat \ {0}
  /\ Limits \subseteq 0 .. MaxLimit /\ Limits # {}
  /\ MaxLimit \in Nat \ {0}
  /\ MaxRate \in Nat /\ Rates \subseteq 0 .. MaxRate
  /\ MaxWaiting \in Nat \ {0}

HazardKinds == {
  "reload",         \* SIGHUP is raised
  "stop",           \* SIGTERM is raised
  "bad config",     \* the configuration file holds a bad entry
  "setup fails"}    \* socket() or bind() fails in setup()

VARIABLES
  toomany,      \* params.toomany
  listener,     \* the descriptor of every se_listener, which only workers change: "zero",
                \* as its constructor leaves it, or "closed", as it is meant to be
  hazards,      \* what the environment does, of HazardKinds
  \* the service table
  inTable,      \* services_
  kind,         \* se_accept and se_bi: "nowait", "wait", or "builtin" (datagrams)
  fd,           \* se_fd
  running,      \* se_state.running
  maxchild,     \* se_maxchild
  secount,      \* se_count
  children,     \* se_children, as pids
  \* clients and processes
  waiting,      \* connections or datagrams waiting on the socket
  life,         \* "free", "running", or "exited": queued for wait()
  owner,        \* the servtab a process was started for
  stale,        \* pids whose procinfo was deleted while hooked into proctable
  \* the thread
  mpc, msvc, todo, mnew,
  allsock,      \* the descriptors of select()
  readable,     \* what select() returned
  batch,        \* signals counted by FIONREAD and not yet served
  adjusted,     \* history: services opened or reconfigured in this round
  \* signal pipe and timer
  signals, pipe, timingout,
  down          \* "no", "term", "software" (terminate()), "corrupt"

given    == <<toomany, listener, hazards>>
svcVars  == <<inTable, kind, fd, running, maxchild, secount, children>>
procVars == <<life, owner, stale>>
mainVars == <<mpc, msvc, todo, mnew, readable, batch, adjusted>>
sigVars  == <<signals, pipe, timingout>>
vars == <<given, svcVars, waiting, procVars, mainVars, allsock, sigVars, down>>

Signals == {"CHLD", "ALRM", "HUP", "TERM"}

TypeOK ==
  /\ inTable \subseteq Services
  /\ kind \in [Services -> {"nowait", "wait", "builtin"}]
  /\ fd \in [Services -> Fds \cup {NoFd}]
  /\ running \in [Services -> BOOLEAN]
  /\ maxchild \in [Services -> Limits \cup {1}]
  /\ secount \in [Services -> 0 .. MaxRate]
  /\ children \in [Services -> SUBSET Pids]
  /\ toomany \in Rates /\ listener \in {"zero", "closed"} /\ hazards \in SUBSET HazardKinds
  /\ waiting \in [Services -> 0 .. MaxWaiting]
  /\ life \in [Pids -> {"free", "running", "exited"}]
  /\ owner \in [Pids -> Services \cup {NoService}]
  /\ stale \subseteq Pids
  /\ mpc \in {"select", "signals", "reap", "retry", "config", "purge", "scan", "read"}
  /\ msvc \in Services \cup {NoService}
  /\ todo \subseteq Services /\ mnew \subseteq Services /\ adjusted \subseteq Services
  /\ allsock \subseteq Fds \cup {PipeFd} /\ readable \subseteq Fds \cup {PipeFd}
  /\ batch \subseteq Signals /\ signals \subseteq Signals
  /\ pipe \in BOOLEAN /\ timingout \in BOOLEAN
  /\ down \in {"no", "term", "software", "corrupt"}

-----------------------------------------------------------------------------
(* Helpers on one service.                                                 *)

Up       == down = "no"
Open(s)  == fd[s] # NoFd
Count(s) == Cardinality(children[s])

\* SERVTAB_EXCEEDS_LIMITX with the limit max
Exceeds(max, n) == max > 0 /\ n >= max

\* What a configuration can make of a service; its socket type is part of its identity.
KindsOf(s) == CASE s \in Streams -> {"nowait", "wait"} [] s \in Builtins -> {"builtin"} [] OTHER -> {"wait"}

\* What stands for a servtab that does not exist.
NoKind(s) == CHOOSE k \in KindsOf(s) : TRUE

\* "wait" services and datagram builtins have one server unless a file says otherwise.
LimitsOf(k) == IF k = "nowait" THEN Limits ELSE {1}

\* FD_SET
FdSet(f, set) == IF Cardinality(set) < FdMax THEN set \cup {f} ELSE set

\* flag_signal(): before body() has created the pipe the write fails.
Flagged(sig) == IF pipe THEN signals \cup {sig} ELSE signals

Corrupt == /\ down' = "corrupt"
           /\ UNCHANGED <<given, svcVars, waiting, procVars, mainVars, allsock, sigVars>>

CloseSepKeepsFd(s) ==  \* mutant: the descriptor stays in the set of select()
  /\ running' = [running EXCEPT ![s] = FALSE]
  /\ fd' = [fd EXCEPT ![s] = NoFd]
  /\ waiting' = [waiting EXCEPT ![s] = 0]
  /\ children' = [children EXCEPT ![s] = {}]
  /\ stale' = stale \cup children[s]
  /\ secount' = [secount EXCEPT ![s] = 0]
  /\ UNCHANGED allsock

\* close_sep(sep): disable(sep, true), and the procinfos of se_children are deleted where
\* they are, hooked into proctable.
CloseSep(s) ==
  /\ running' = [running EXCEPT ![s] = FALSE]
  /\ allsock' = IF running[s] THEN allsock \ {fd[s]} ELSE allsock
  /\ fd' = [fd EXCEPT ![s] = NoFd]
  /\ waiting' = [waiting EXCEPT ![s] = 0]
  /\ children' = [children EXCEPT ![s] = {}]
  /\ stale' = stale \cup children[s]
  /\ secount' = [secount EXCEPT ![s] = 0]

\* setup(sep) with the descriptors of select() in set: a socket that is bound is enabled, a
\* bind() that fails asks for a retry, and a failed socket() is given up.  Descriptors
\* that were closed are given out again.
Setup(s, set) ==
  \/ \E f \in Fds \ {fd[t] : t \in Services \ {s}} :
       /\ fd' = [fd EXCEPT ![s] = f]
       /\ running' = [running EXCEPT ![s] = TRUE]
       /\ allsock' = FdSet(f, set)
       /\ UNCHANGED timingout
  \/ /\ "setup fails" \in hazards
     /\ fd' = [fd EXCEPT ![s] = NoFd]
     /\ running' = [running EXCEPT ![s] = FALSE]
     /\ allsock' = set
     /\ timingout' \in {timingout, TRUE}

-----------------------------------------------------------------------------
(* Clients, children, signals from outside, and the timer.                 *)

Arrive(s) ==
  /\ Up /\ Open(s) /\ waiting[s] < MaxWaiting
  /\ waiting' = [waiting EXCEPT ![s] = @ + 1]
  /\ UNCHANGED <<given, svcVars, procVars, mainVars, allsock, sigVars, down>>

\* The server of a "wait" service takes from the socket it was given.
ServerTakes(p) ==
  /\ Up /\ life[p] = "running" /\ p \in children[owner[p]]
  /\ kind[owner[p]] = "wait" /\ waiting[owner[p]] > 0
  /\ waiting' = [waiting EXCEPT ![owner[p]] = @ - 1]
  /\ UNCHANGED <<given, svcVars, procVars, mainVars, allsock, sigVars, down>>

ChildExit(p) ==
  /\ Up /\ life[p] = "running"
  /\ life' = [life EXCEPT ![p] = "exited"]
  /\ signals' = Flagged("CHLD")
  /\ UNCHANGED <<given, svcVars, waiting, owner, stale, mainVars, allsock, pipe, timingout, down>>

\* inetd_signal_reconfig(), inetd_signal_stop().  The pipe is looked at when select() returns:
\* a signal that is raised in the midst of a round is as good as one after it.
Raise(sig) ==
  /\ Up /\ mpc = "select" /\ signals' = Flagged(sig)
  /\ UNCHANGED <<given, svcVars, waiting, procVars, mainVars, allsock, pipe, timingout, down>>

\* alarm_timer(): setalarm() waits for a callback that has begun, so the thread sees
\* both of its statements or neither.
TimerFires ==
  /\ Up /\ timingout /\ pipe
  /\ timingout' = FALSE /\ signals' = Flagged("ALRM")
  /\ UNCHANGED <<given, svcVars, waiting, procVars, mainVars, allsock, pipe, down>>

Environment ==
  \/ \E s \in Services : Arrive(s)
  \/ \E p \in Pids : ServerTakes(p) \/ ChildExit(p)
  \/ "reload" \in hazards /\ Raise("HUP")
  \/ "stop" \in hazards /\ Raise("TERM")

-----------------------------------------------------------------------------
(* select(), and the signals that were queued when it returned.            *)

Ready(f) == IF f = PipeFd THEN signals # {} ELSE \E s \in Services : fd[s] = f /\ waiting[s] > 0

\* select() blocks until something is readable, and fails while one of its descriptors is
\* closed.
Select ==
  /\ Up /\ mpc = "select"
  /\ allsock \subseteq {PipeFd} \cup {fd[s] : s \in Services}
  /\ \E f \in allsock : Ready(f)
  /\ readable' = {f \in allsock : Ready(f)}
  /\ batch' = IF PipeFd \in readable' THEN signals ELSE {}
  /\ mpc' = "signals"
  /\ UNCHANGED <<given, svcVars, waiting, procVars, msvc, todo, mnew, adjusted, allsock, sigVars, down>>

WantedOpen(s) == listener = "closed" /\ Open(s)  \* mutant: without FD_ISSET

\* FD_ISSET(sep->se_fd, &readable), with what select() returned before the signals.
Wanted(s) == listener = "closed" /\ Open(s) /\ fd[s] \in readable

EndSignalsOnly ==  \* mutant: a round that had signals serves no client
  /\ Up /\ mpc = "signals" /\ batch = {}
  /\ mpc' = "scan" /\ todo' = {s \in inTable : Wanted(s) /\ PipeFd \notin readable}
  /\ UNCHANGED <<given, svcVars, waiting, procVars, msvc, mnew, readable, batch, adjusted, allsock,
                 sigVars, down>>

\* The network events: of the services of the table as it is now, those that have neither
\* an open listener nor a readable socket are passed over.  (n only ends the loop when no
\* readable descriptor is left.)
EndSignals ==
  /\ Up /\ mpc = "signals" /\ batch = {}
  /\ mpc' = "scan" /\ todo' = {s \in inTable : Wanted(s)}
  /\ UNCHANGED <<given, svcVars, waiting, procVars, msvc, mnew, readable, batch, adjusted, allsock,
                 sigVars, down>>

Take(sig) ==
  /\ Up /\ mpc = "signals" /\ sig \in batch
  /\ batch' = batch \ {sig} /\ signals' = signals \ {sig}
  /\ UNCHANGED <<given, svcVars, waiting, procVars, msvc, readable, adjusted, allsock, pipe, timingout>>

TakeChld == Take("CHLD") /\ mpc' = "reap" /\ UNCHANGED <<todo, mnew, down>>
TakeAlrm == Take("ALRM") /\ mpc' = "retry" /\ todo' = inTable /\ UNCHANGED <<mnew, down>>
TakeTerm == Take("TERM") /\ down' = "term" /\ UNCHANGED <<mpc, todo, mnew>>
TakeHup  == /\ Take("HUP") /\ mpc' = "config" /\ mnew' \in SUBSET Services /\ todo' = mnew'
            /\ UNCHANGED down

\* config(): the file cannot be opened.
TakeHupNoFile == Take("HUP") /\ UNCHANGED <<mpc, todo, mnew, down>>

-----------------------------------------------------------------------------
(* reapchildren() and retry().                                             *)

\* enable(sep)
Enable(s) ==
  /\ running' = [running EXCEPT ![s] = TRUE]
  /\ allsock' = IF running[s] THEN allsock ELSE FdSet(fd[s], allsock)

\* wait() hands out p, and reapchild() uncounts it and enables its service.
Reap(p) ==
  LET s == owner[p]
  IN  /\ Up /\ mpc = "reap" /\ life[p] = "exited" /\ p \in children[s]
      /\ life' = [life EXCEPT ![p] = "free"] /\ owner' = [owner EXCEPT ![p] = NoService]
      /\ children' = [children EXCEPT ![s] = @ \ {p}]
      /\ IF Exceeds(maxchild[s], Cardinality(children[s] \ {p}))
         THEN UNCHANGED <<running, allsock>>
         ELSE Enable(s)
      /\ UNCHANGED <<inTable, kind, fd, maxchild, secount, given, waiting, stale,
                     mainVars, sigVars, down>>

\* The procinfo of p, or another on its hash chain, was deleted by close_sep().
ReapCorrupt ==
  /\ Up /\ mpc = "reap" /\ stale # {} /\ \E p \in Pids : life[p] = "exited"
  /\ Corrupt

ReapDone ==
  /\ Up /\ mpc = "reap" /\ \A p \in Pids : life[p] # "exited"
  /\ mpc' = "signals"
  /\ UNCHANGED <<given, svcVars, waiting, procVars, msvc, todo, mnew, readable, batch, adjusted,
                 allsock, sigVars, down>>

Retry(s) ==
  /\ Up /\ mpc = "retry" /\ s \in todo
  /\ todo' = todo \ {s}
  /\ IF Open(s) THEN UNCHANGED <<fd, running, allsock, timingout, adjusted>>
     ELSE Setup(s, allsock) /\ adjusted' = adjusted \cup {s}
  /\ UNCHANGED <<inTable, kind, maxchild, secount, children, given, waiting, procVars,
                 mpc, msvc, mnew, readable, batch, signals, pipe, down>>

RetryDone ==
  /\ Up /\ mpc = "retry" /\ todo = {}
  /\ mpc' = "signals"
  /\ UNCHANGED <<given, svcVars, waiting, procVars, msvc, todo, mnew, readable, batch, adjusted,
                 allsock, sigVars, down>>

-----------------------------------------------------------------------------
(* config(), called by body() and on SIGHUP.                               *)

ConfigAbort ==
  /\ "bad config" \in hazards
  /\ Up /\ mpc = "config" /\ todo # {}
  /\ down' = "software"
  /\ UNCHANGED <<given, svcVars, waiting, procVars, mainVars, allsock, sigVars>>

Config(s) ==
  /\ Up /\ mpc = "config" /\ s \in todo
  /\ todo' = todo \ {s} /\ adjusted' = adjusted \cup {s}
  /\ \E k \in KindsOf(s) : \E n \in LimitsOf(k) :
       kind' = [kind EXCEPT ![s] = k] /\ maxchild' = [maxchild EXCEPT ![s] = n]
  /\ UNCHANGED <<inTable, given, life, owner, mpc, msvc, mnew, readable, batch,
                 signals, pipe, down>>

\* An open service of the table stays open, and is stopped or started by its new limit; a
\* changed se_accept stops it, and it is started again if it has room.
ConfigKeep(s) ==
  /\ Config(s) /\ s \in inTable /\ Open(s)
  /\ running' = [running EXCEPT ![s] = ~Exceeds(maxchild'[s], Count(s))]
  /\ allsock' = IF running'[s] = running[s] THEN allsock
                ELSE IF running[s] THEN allsock \ {fd[s]} ELSE FdSet(fd[s], allsock)
  /\ UNCHANGED <<fd, secount, children, stale, waiting, timingout>>

\* se_reset, or no socket, or a new servtab: it is closed and set up.
ConfigSetup(s) ==
  /\ Config(s)
  /\ IF s \in inTable /\ Open(s)
     THEN /\ Setup(s, IF running[s] THEN allsock \ {fd[s]} ELSE allsock)
          /\ children' = [children EXCEPT ![s] = {}]
          /\ stale' = stale \cup children[s]
          /\ waiting' = [waiting EXCEPT ![s] = 0]
     ELSE Setup(s, allsock) /\ UNCHANGED <<children, stale, waiting>>
  /\ secount' = IF s \in inTable /\ ~Open(s) THEN secount ELSE [secount EXCEPT ![s] = 0]

ConfigSwap ==
  /\ Up /\ mpc = "config" /\ todo = {}
  /\ inTable' = mnew /\ todo' = inTable \ mnew
  /\ mpc' = "purge"
  /\ UNCHANGED <<kind, fd, running, maxchild, secount, children, given, waiting, procVars,
                 msvc, mnew, readable, batch, adjusted, allsock, sigVars, down>>

\* close_sep(sep, true); the servtab goes with its last reference.
ConfigPurge(s) ==
  /\ Up /\ mpc = "purge" /\ s \in todo
  /\ todo' = todo \ {s}
  /\ CloseSep(s)
  /\ kind' = [kind EXCEPT ![s] = NoKind(s)] /\ maxchild' = [maxchild EXCEPT ![s] = 1]
  /\ UNCHANGED <<inTable, given, life, owner, mpc, msvc, mnew, readable,
                 batch, adjusted, sigVars, down>>

\* config() returns; the first time, body() then creates the signal pipe.
ConfigDone ==
  /\ Up /\ mpc = "purge" /\ todo = {}
  /\ mnew' = {} /\ pipe' = TRUE
  /\ IF pipe
     THEN mpc' = "signals" /\ UNCHANGED <<adjusted, allsock>>
     ELSE mpc' = "select" /\ adjusted' = {} /\ allsock' = FdSet(PipeFd, allsock)
  /\ UNCHANGED <<given, svcVars, waiting, procVars, msvc, todo, readable, batch, signals,
                 timingout, down>>

-----------------------------------------------------------------------------
(* The network events, and do_accept().                                    *)

ScanDone ==
  /\ Up /\ mpc = "scan" /\ todo = {}
  /\ mpc' = "select" /\ readable' = {} /\ adjusted' = {}
  /\ UNCHANGED <<given, svcVars, waiting, procVars, msvc, todo, mnew, batch, allsock, sigVars, down>>

Serve(s) ==
  /\ Up /\ mpc = "scan" /\ s \in todo
  /\ todo' = todo \ {s}
  /\ UNCHANGED <<inTable, kind, maxchild, given, mnew, readable, batch, adjusted, signals, pipe>>

\* accept() for a "nowait" service takes a connection; "wait" services are given the socket.
Taken(s) == IF kind[s] = "nowait"
            THEN waiting[s] > 0 /\ waiting' = [waiting EXCEPT ![s] = @ - 1]
            ELSE UNCHANGED waiting

\* accept() has nothing to take; access rules or times turn the client away; or a stream
\* builtin that needs no process serves the connection.
ServeNone(s) ==
  /\ Serve(s)
  /\ \/ Taken(s)
     \/ kind[s] = "nowait" /\ waiting[s] = 0 /\ UNCHANGED waiting
  /\ UNCHANGED <<fd, running, secount, children, procVars, mpc, msvc, allsock, timingout, down>>

\* A datagram builtin calls recvfrom() on the socket.
ServeDatagram(s) ==
  /\ Serve(s) /\ kind[s] = "builtin"
  /\ mpc' = "read" /\ msvc' = s
  /\ UNCHANGED <<fd, running, secount, children, waiting, procVars, allsock, timingout, down>>

\* recvfrom() blocks until there is a datagram.
Read ==
  /\ Up /\ mpc = "read" /\ waiting[msvc] > 0
  /\ waiting' = [waiting EXCEPT ![msvc] = @ - 1]
  /\ mpc' = "scan" /\ msvc' = NoService
  /\ UNCHANGED <<given, svcVars, procVars, todo, mnew, readable, batch, adjusted, allsock, sigVars, down>>

\* se_count: an invocation beyond toomany is let through when the window is over.
Counted(s) == secount' = [secount EXCEPT ![s] =
                IF toomany = 0 THEN 0 ELSE IF @ > 0 /\ @ + 1 >= toomany THEN 1 ELSE @ + 1]

Forks(s) == Serve(s) /\ kind[s] # "builtin" /\ Taken(s)

\* do_fork() and addchild(): the child is counted, and at the limit its service disabled.
ServeChild(s, p) ==
  /\ Forks(s) /\ Counted(s)
  /\ life[p] = "free"
  /\ life' = [life EXCEPT ![p] = "running"] /\ owner' = [owner EXCEPT ![p] = s]
  /\ children' = [children EXCEPT ![s] = @ \cup {p}]
  /\ IF Exceeds(maxchild[s], Cardinality(children'[s]))
     THEN /\ running' = [running EXCEPT ![s] = FALSE]
          /\ allsock' = IF running[s] THEN allsock \ {fd[s]} ELSE allsock
     ELSE UNCHANGED <<running, allsock>>
  /\ UNCHANGED <<fd, stale, mpc, msvc, timingout, down>>

\* do_fork() fails: the client is lost, or waits on.
ServeForkFails(s) ==
  /\ Forks(s) /\ Counted(s)
  /\ UNCHANGED <<fd, running, children, procVars, allsock, mpc, msvc, timingout, down>>

\* addchild(): the hash chain holds a procinfo that close_sep() has deleted.
ServeCorrupt(s) ==
  /\ Up /\ mpc = "scan" /\ s \in todo /\ stale # {}
  /\ kind[s] # "builtin" /\ (kind[s] = "nowait" => waiting[s] > 0)
  /\ Corrupt

\* do_accept(): "server failing (looping), service terminated".
ServeLooping(s) ==
  /\ Serve(s) /\ kind[s] # "builtin" /\ (kind[s] = "nowait" => waiting[s] > 0)
  /\ toomany > 0 /\ secount[s] > 0 /\ secount[s] + 1 >= toomany
  /\ CloseSep(s) /\ timingout' = TRUE
  /\ UNCHANGED <<life, owner, mpc, msvc, down>>

Main ==
  \/ Select \/ EndSignals \/ TakeChld \/ TakeAlrm \/ TakeTerm \/ TakeHup \/ TakeHupNoFile
  \/ \E p \in Pids : Reap(p)
  \/ ReapCorrupt \/ ReapDone \/ RetryDone
  \/ ConfigAbort \/ ConfigSwap \/ ConfigDone
  \/ \E s \in Services : Retry(s) \/ ConfigKeep(s) \/ ConfigSetup(s) \/ ConfigPurge(s)
  \/ \E s \in Services : \/ ServeNone(s) \/ ServeDatagram(s) \/ ServeForkFails(s)
                          \/ ServeCorrupt(s) \/ ServeLooping(s)
                          \/ \E p \in Pids : ServeChild(s, p)
  \/ ScanDone \/ Read

-----------------------------------------------------------------------------
\* body() enters config() with an empty table.
Init ==
  /\ inTable = {}
  /\ kind = [s \in Services |-> NoKind(s)]
  /\ fd = [s \in Services |-> NoFd]
  /\ running = [s \in Services |-> FALSE]
  /\ maxchild = [s \in Services |-> 1]
  /\ secount = [s \in Services |-> 0]
  /\ children = [s \in Services |-> {}]
  /\ toomany \in Rates /\ listener \in {"zero", "closed"} /\ hazards \in SUBSET HazardKinds
  /\ waiting = [s \in Services |-> 0]
  /\ life = [p \in Pids |-> "free"]
  /\ owner = [p \in Pids |-> NoService]
  /\ stale = {}
  /\ mpc = "config" /\ msvc = NoService
  /\ mnew \in SUBSET Services /\ todo = mnew
  /\ allsock = {} /\ readable = {} /\ batch = {} /\ adjusted = {}
  /\ signals = {} /\ pipe = FALSE /\ timingout = FALSE
  /\ down = "no"

Next == Environment \/ TimerFires \/ Main

Spec == Init /\ [][Next]_vars

\* The thread goes on while it can; nothing is assumed of clients, children, signals or
\* the timer.
FairSpec == Spec /\ WF_vars(Main)

-----------------------------------------------------------------------------
(* Properties.                                                             *)

\* select() watches the sockets of the running services and nothing else, as long as they
\* and the pipe fit into the set: a descriptor that is closed would make every call fail.
WatchedRight ==
  Up /\ Cardinality(Fds) < FdMax =>
    allsock \ {PipeFd} = {fd[s] : s \in {t \in Services : running[t]}}

\* A service runs exactly while it has a socket and room for a child: a reload, an exit, a
\* retry or a full table leaves it neither stopped with room nor watched without.
RunsWithRoom ==
  \A s \in Services : Up => (running[s] <=> Open(s) /\ ~Exceeds(maxchild[s], Count(s)))

\* With one thread no exit is missed: the children of a service are those of its processes
\* that are not yet reaped, but for those that close_sep() forgot.
ChildrenExact ==
  \A p \in Pids, s \in Services :
    Up => (p \in children[s] <=> life[p] # "free" /\ owner[p] = s /\ p \notin stale)

SelectRight == WatchedRight /\ RunsWithRoom /\ ChildrenExact

\* A child is added only to a service that had room when select() returned, whatever was
\* served before it in the round; the exception is a service that a reload in this very round
\* has stopped or set up, which is served by what select() had seen.
RoomAtRound ==
  [][\A s \in Services :
       ~(children'[s] \subseteq children[s]) /\ s \notin adjusted =>
         running[s] /\ ~Exceeds(maxchild[s], Count(s))]_vars

\* inetd.txt: "When a connection is found on one of its sockets, it decides what service the
\* socket corresponds to, and invokes a program": a running service that has a client, and
\* is no builtin, is given its turn again and again, whatever signals and other clients come,
\* unless a builtin waits for a datagram for ever; if listeners are closed where there are
\* no workers.
Turn(s) == mpc = "scan" /\ s \in todo /\ s \notin todo'
Served ==
  \A s \in Services \ Builtins :
    \/ listener # "closed" \/ <>[](mpc = "read")
    \/ []<>(~running[s] \/ waiting[s] = 0 \/ ~Up)
    \/ []<><<Turn(s)>>_vars

=============================================================================

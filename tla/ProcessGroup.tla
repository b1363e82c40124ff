---------------------------- MODULE ProcessGroup ----------------------------
(***************************************************************************)
(* ProcessGroup.h: child processes are put into a job object whose         *)
(* notifications arrive at a completion port, mixed with the track()       *)
(* requests of the threads that started them.  JobEventTask serves the     *)
(* port and queues finished children; the main thread takes SIGCHLD from   *)
(* the signal pipe and collects them with wait(nohang).                    *)
(***************************************************************************)
EXTENDS Naturals, Sequences, FiniteSets

CONSTANTS
  Pids,         \* process identifiers
  MaxLate,      \* how many polls may find the handle of an ended process unsignalled
  MaxSignals,   \* bound: SIGCHLD numbers in the signal pipe when a process is created
  MaxPort,      \* bound: notifications in the port when a process is created
  Unassigned,   \* processes that AssignProcessToJobObject may fail for
  NoPid

ASSUME ProcessGroupAssumption ==
  /\ IsFiniteSet(Pids) /\ NoPid \notin Pids
  /\ MaxLate \in Nat /\ MaxSignals \in Nat /\ MaxPort \in Nat
  /\ Unassigned \subseteq Pids

VARIABLES
  os,           \* the process: "free", "running", "ended"
  injob,        \* is it a member of the job?
  late,         \* polls that will still find its handle unsignalled
  parent,       \* who has a handle: "none", "tracking" (the thread before track()), "done"
  port,         \* the completion port: <<kind, pid>>, in order
  childids,     \* JobEventTask: members of the job
  processes,    \* JobEventTask: tracked members
  complete,     \* complete_, in order
  attempts,     \* Process::attempts
  task,         \* JobEventTask: "get", or "signal": about to call sigchld()
  signals,      \* SIGCHLD numbers in the pipe
  mpc,          \* the main thread: "select", "wait", "poll"
  held          \* the process wait() has taken from complete_

osVars   == <<os, injob, late>>
taskVars == <<childids, processes, task>>
mainVars == <<mpc, held>>
vars == <<osVars, parent, port, taskVars, complete, attempts, signals, mainVars>>

Messages == {"NEW", "EXIT", "TRACK"} \X Pids

TypeOK ==
  /\ os \in [Pids -> {"free", "running", "ended"}]
  /\ injob \in [Pids -> BOOLEAN]
  /\ late \in [Pids -> 0 .. MaxLate]
  /\ parent \in [Pids -> {"none", "tracking", "done"}]
  /\ port \in Seq(Messages)
  /\ childids \subseteq Pids
  /\ processes \subseteq Pids
  /\ complete \in Seq(Pids)
  /\ attempts \in [Pids -> 0 .. 2]
  /\ task \in {"get", "signal"}
  /\ signals \in Nat
  /\ mpc \in {"select", "wait", "poll"}
  /\ held \in Pids \cup {NoPid}

Init ==
  /\ os = [p \in Pids |-> "free"]
  /\ injob = [p \in Pids |-> FALSE]
  /\ late = [p \in Pids |-> 0]
  /\ parent = [p \in Pids |-> "none"]
  /\ port = <<>>
  /\ childids = {} /\ processes = {}
  /\ complete = <<>>
  /\ attempts = [p \in Pids |-> 0]
  /\ task = "get" /\ signals = 0
  /\ mpc = "select" /\ held = NoPid

-----------------------------------------------------------------------------
(* SocketShare::PushSocket and do_fork(), on the thread that serves the    *)
(* connection; the system posts the job's notifications.                   *)

\* CREATE_SUSPENDED, AssignProcessToJobObject (a failure is only printed), ResumeThread.
Create(p) ==
  /\ os[p] = "free" /\ parent[p] = "none"
  /\ signals <= MaxSignals /\ Len(port) <= MaxPort
  /\ os' = [os EXCEPT ![p] = "running"]
  /\ parent' = [parent EXCEPT ![p] = "tracking"]
  /\ \/ /\ injob' = [injob EXCEPT ![p] = TRUE]
        /\ port' = Append(port, <<"NEW", p>>)
     \/ /\ p \in Unassigned
        /\ injob' = [injob EXCEPT ![p] = FALSE]
        /\ UNCHANGED port
  /\ UNCHANGED <<late, taskVars, complete, attempts, signals, mainVars>>

\* The process ends; its handle may be signalled a little later than the job is told.  The
\* identifier is kept while somebody has a handle.
Exit(p) ==
  /\ os[p] = "running"
  /\ os' = [os EXCEPT ![p] = IF parent[p] = "none" THEN "free" ELSE "ended"]
  /\ \E n \in 0 .. MaxLate : late' = [late EXCEPT ![p] = n]
  /\ port' = IF injob[p] THEN Append(port, <<"EXIT", p>>) ELSE port
  /\ UNCHANGED <<injob, parent, taskVars, complete, attempts, signals, mainVars>>

\* do_fork(): publish() succeeded, track() posts a clone of the process identity.
Track(p) ==
  /\ parent[p] = "tracking"
  /\ parent' = [parent EXCEPT ![p] = "done"]
  /\ attempts' = [attempts EXCEPT ![p] = 0]
  /\ port' = Append(port, <<"TRACK", p>>)
  /\ UNCHANGED <<osVars, taskVars, complete, signals, mainVars>>

\* The last handle of p is closed.
Release(p) ==
  /\ parent' = [parent EXCEPT ![p] = "none"]
  /\ os' = [os EXCEPT ![p] = IF @ = "ended" THEN "free" ELSE @]

\* PushSocket: the process runs, but publish() fails (it never connects to the pipe).
Abandon(p) ==
  /\ parent[p] = "tracking"
  /\ Release(p)
  /\ UNCHANGED <<injob, late, port, taskVars, complete, attempts, signals, mainVars>>

-----------------------------------------------------------------------------
(* JobEventTask.                                                           *)

Received(kind, p) == port # <<>> /\ Head(port) = <<kind, p>> /\ task = "get"

GetNew(p) ==
  /\ Received("NEW", p)
  /\ port' = Tail(port)
  /\ childids' = childids \cup {p}
  /\ UNCHANGED <<osVars, parent, processes, task, complete, attempts, signals, mainVars>>

GetExitKeeps(p) ==  \* mutant: a process that is queued is still tracked
  /\ Received("EXIT", p)
  /\ port' = Tail(port)
  /\ complete' = IF p \in processes THEN Append(complete, p) ELSE complete
  /\ childids' = childids \ {p}
  /\ task' = "signal"
  /\ UNCHANGED <<osVars, parent, processes, attempts, signals, mainVars>>

\* A tracked process is queued; SIGCHLD is raised for an untracked one too.
GetExit(p) ==
  /\ Received("EXIT", p)
  /\ port' = Tail(port)
  /\ complete' = IF p \in processes THEN Append(complete, p) ELSE complete
  /\ processes' = processes \ {p}
  /\ childids' = childids \ {p}
  /\ task' = "signal"
  /\ UNCHANGED <<osVars, parent, attempts, signals, mainVars>>

GetTrackAlways(p) ==  \* mutant: an exit that came before track() is not noticed
  /\ Received("TRACK", p)
  /\ port' = Tail(port)
  /\ processes' = processes \cup {p}
  /\ UNCHANGED <<osVars, parent, childids, task, complete, attempts, signals, mainVars>>

\* "assume process has already terminated" when it is no member of the job (any more).
GetTrack(p) ==
  /\ Received("TRACK", p)
  /\ port' = Tail(port)
  /\ IF p \in childids
     THEN processes' = processes \cup {p} /\ UNCHANGED <<complete, task>>
     ELSE complete' = Append(complete, p) /\ task' = "signal" /\ UNCHANGED processes
  /\ UNCHANGED <<osVars, parent, childids, attempts, signals, mainVars>>

SigchldLost ==  \* mutant: the write to the signal pipe is lost
  /\ task = "signal"
  /\ task' = "get"
  /\ UNCHANGED <<osVars, parent, port, childids, processes, complete, attempts, signals, mainVars>>

Sigchld ==
  /\ task = "signal"
  /\ task' = "get" /\ signals' = signals + 1
  /\ UNCHANGED <<osVars, parent, port, childids, processes, complete, attempts, mainVars>>

JobEventTask == (\E p \in Pids : GetNew(p) \/ GetExit(p) \/ GetTrack(p)) \/ Sigchld

-----------------------------------------------------------------------------
(* The main thread: reapchildren() and wait(nohang).                       *)

TakeSigchld ==
  /\ mpc = "select" /\ signals > 0
  /\ signals' = signals - 1 /\ mpc' = "wait"
  /\ UNCHANGED <<osVars, parent, port, taskVars, complete, attempts, held>>

WaitEmpty ==
  /\ mpc = "wait" /\ complete = <<>>
  /\ mpc' = "select"
  /\ UNCHANGED <<osVars, parent, port, taskVars, complete, attempts, signals, held>>

WaitPop ==
  /\ mpc = "wait" /\ complete # <<>>
  /\ held' = Head(complete) /\ complete' = Tail(complete)
  /\ mpc' = "poll"
  /\ UNCHANGED <<osVars, parent, port, taskVars, attempts, signals>>

Signalled(p) == os[p] = "ended" /\ late[p] = 0

\* The exit is returned, and the last handle of the process is closed: its identifier may
\* be used again.
Poll ==
  /\ mpc = "poll" /\ Signalled(held)
  /\ Release(held)
  /\ mpc' = "wait" /\ held' = NoPid
  /\ UNCHANGED <<injob, late, port, taskVars, complete, attempts, signals>>

Closer(p) == late' = IF os[p] = "ended" THEN [late EXCEPT ![p] = @ - 1] ELSE late

PollAgainOften ==  \* mutant: one attempt too many
  /\ mpc = "poll" /\ ~Signalled(held) /\ attempts[held] <= 2
  /\ attempts' = [attempts EXCEPT ![held] = @ + 1]
  /\ complete' = Append(complete, held)
  /\ Closer(held)
  /\ signals' = signals + 1
  /\ mpc' = "select" /\ held' = NoPid
  /\ UNCHANGED <<os, injob, parent, port, taskVars>>

\* EAGAIN: "incomplete termination" is tried three times; wait() returns -1 and
\* reapchildren() stops, whatever else is queued.
PollAgain ==
  /\ mpc = "poll" /\ ~Signalled(held) /\ attempts[held] < 2
  /\ attempts' = [attempts EXCEPT ![held] = @ + 1]
  /\ complete' = Append(complete, held)
  /\ Closer(held)
  /\ signals' = signals + 1
  /\ mpc' = "select" /\ held' = NoPid
  /\ UNCHANGED <<os, injob, parent, port, taskVars>>

\* The third EAGAIN: the process is forgotten.
PollDrop ==
  /\ mpc = "poll" /\ ~Signalled(held) /\ attempts[held] = 2
  /\ Release(held)
  /\ mpc' = "select" /\ held' = NoPid
  /\ UNCHANGED <<injob, late, port, taskVars, complete, attempts, signals>>

Main == TakeSigchld \/ WaitEmpty \/ WaitPop \/ Poll \/ PollAgain \/ PollDrop

-----------------------------------------------------------------------------
Next == (\E p \in Pids : Create(p) \/ Track(p) \/ Abandon(p) \/ Exit(p)) \/ JobEventTask \/ Main

Spec == Init /\ [][Next]_vars

\* The two threads run; nothing is assumed of the children or of their parents.
FairSpec == /\ Spec /\ WF_vars(JobEventTask) /\ WF_vars(Main)

-----------------------------------------------------------------------------
(* Properties.                                                             *)

\* Every child queued for wait() has a SIGCHLD that will make the main thread look: one in
\* the pipe, one JobEventTask is about to write, or the one being served.  It is what makes
\* it safe that reapchildren() stops at the first incomplete termination.
Serving == (IF task = "signal" THEN 1 ELSE 0) + (IF mpc = "select" THEN 0 ELSE 1)

NoLostWakeup == Len(complete) + (IF mpc = "poll" THEN 1 ELSE 0) <= signals + Serving

\* Where a tracked process is: its request in the port, JobEventTask's map, complete_, or
\* the hands of wait().
Places(p) ==
  Cardinality({i \in DOMAIN port : port[i] = <<"TRACK", p>>})
  + (IF p \in processes THEN 1 ELSE 0)
  + Cardinality({i \in DOMAIN complete : complete[i] = p})
  + (IF held = p THEN 1 ELSE 0)

\* A tracked process is in exactly one place until wait() lets go of it: JobEventTask never
\* loses it, and never queues it twice.
TrackedOnce == \A p \in Pids : Places(p) = (IF parent[p] = "done" THEN 1 ELSE 0)

\* JobEventTask, wait() and the signal pipe keep what Reaper promises, safety and liveness,
\* for every process that is in the job, in whatever order its notifications and track()
\* arrive: wait() lets go of none that it has not reported.
reported == [p \in Pids \ Unassigned |->
               IF parent[p] # "done" THEN "free"
               ELSE IF Signalled(p) THEN "ended" ELSE "running"]
R == INSTANCE Reaper WITH Pids <- Pids \ Unassigned, proc <- reported

ReaperSpec == R!Spec
=============================================================================

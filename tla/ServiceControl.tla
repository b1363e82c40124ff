--------------------------- MODULE ServiceControl ---------------------------
(***************************************************************************)
(* The life of the service: NTService.cpp's ServiceMain() and control      *)
(* handler, and Service.cpp's start and shutdown of the server and logger  *)
(* threads.  The dispatcher, in main(), calls the handler and returns when *)
(* the service control manager has been told SERVICE_STOPPED; the object   *)
(* that all threads use is then destroyed and the process exits.           *)
(***************************************************************************)
EXTENDS Naturals

CONSTANT Failures  \* what may go wrong

FailureKinds == {"register", "OnInit", "Initialise", "server ends"}

VARIABLES
  console,      \* m_bRunAsConsole: no control manager, one thread is main() and ServiceMain()
  logger,       \* options_.logger
  mpc,          \* ServiceMain(): the step it is about to take
  told,         \* and what SetStatus() of that step reports next; "": nothing
  hpc,          \* main(): "dispatch", the handler's "stop", "stopping", "clear", "event", "report",
                \* "destroyed", and "exited"
  status,       \* m_Status.dwCurrentState
  scm,          \* what the control manager was told last
  running,      \* m_bIsRunning
  stopEvent,    \* m_hStopEvent
  server,       \* "none", "starting" (before its signal pipe exists), "running", "told", "ended"
  logging,      \* "none", "running", "told", "ended"
  stopped,      \* history: a STOP was handled,
  early,        \*   before m_bIsRunning was set
  deaf,         \* history: SIGTERM was sent before there was a signal pipe
  alone         \* history: the server ended, or was not started, of itself

history == <<stopped, early, deaf, alone>>
modes   == <<console, logger>>
vars == <<modes, mpc, told, hpc, status, scm, running, stopEvent, server, logging, history>>

MainAt == {"start", "pending", "init", "run", "flag", "initialise", "wait", "shutdown", "await server",
           "logger", "await logger", "final", "left"}
States == {"none", "start pending", "running", "stop pending", "stopped"}

TypeOK ==
  /\ console \in BOOLEAN /\ logger \in BOOLEAN
  /\ mpc \in MainAt /\ told \in {"", "init", "run", "flag", "final", "left"}
  /\ hpc \in {"dispatch", "stop", "stopping", "clear", "event", "report", "destroyed", "exited"}
  /\ status \in States /\ scm \in States
  /\ running \in BOOLEAN /\ stopEvent \in BOOLEAN
  /\ server \in {"none", "starting", "running", "told", "ended"}
  /\ logging \in {"none", "running", "told", "ended"}
  /\ stopped \in BOOLEAN /\ early \in BOOLEAN /\ deaf \in BOOLEAN /\ alone \in BOOLEAN

\* Service::Start(): a service always has the logger.
Init ==
  /\ console \in BOOLEAN /\ logger \in BOOLEAN /\ (console \/ logger)
  /\ mpc = "start" /\ told = "" /\ hpc = "dispatch"
  /\ status = "stopped" /\ scm = "none"
  /\ running = FALSE /\ stopEvent = FALSE
  /\ server = "none" /\ logging = "none"
  /\ stopped = FALSE /\ early = FALSE /\ deaf = FALSE /\ alone = FALSE

Alive == hpc # "exited"

Main(from, to) == Alive /\ mpc = from /\ told = "" /\ mpc' = to

\* After SERVICE_STOPPED the control manager takes no more reports.
Report == scm' = IF scm = "stopped" THEN scm ELSE status

-----------------------------------------------------------------------------
(* SetStatus() on ServiceMain()'s thread: m_Status, then the report of it; *)
(* the handler may come in between.                                        *)

SetStatus(from, state, next) ==
  /\ Alive /\ mpc = from /\ told = ""
  /\ status' = state /\ told' = next

Tell ==
  /\ Alive /\ told # ""
  /\ Report
  /\ mpc' = told /\ told' = ""
  /\ UNCHANGED <<modes, hpc, status, running, stopEvent, server, logging, history>>

-----------------------------------------------------------------------------
(* ServiceMain(), Initialize().                                            *)

Register ==
  /\ ~console /\ status' = "start pending"
  /\ Main("start", "pending") \/ ("register" \in Failures /\ Main("start", "left"))
  /\ UNCHANGED <<modes, told, hpc, scm, running, stopEvent, server, logging, history>>

Pending ==
  /\ SetStatus("pending", "start pending", "init")
  /\ UNCHANGED <<modes, mpc, hpc, scm, running, stopEvent, server, logging, history>>

\* OnInit(); a failure is told here and once more by ServiceMain().
OnInit ==
  /\ mpc = "init" /\ ~console
  /\ \/ SetStatus("init", "running", "run")
     \/ "OnInit" \in Failures /\ SetStatus("init", "stopped", "final")
  /\ UNCHANGED <<modes, mpc, hpc, scm, running, stopEvent, server, logging, history>>

SetRunning ==
  /\ Main("run", "initialise")
  /\ running' = TRUE
  /\ UNCHANGED <<modes, told, hpc, status, scm, stopEvent, server, logging, history>>

\* ConsoleStart(); a failing OnInit() returns like an exit.
ConsoleStart ==
  /\ console
  /\ \/ Main("start", "initialise") /\ running' = TRUE
     \/ "OnInit" \in Failures /\ Main("start", "left") /\ UNCHANGED running
  /\ UNCHANGED <<modes, told, hpc, status, scm, stopEvent, server, logging, history>>

-----------------------------------------------------------------------------
(* Service::ServiceRun(), Initialise(), Shutdown().                        *)

\* The logger and the server are started.  Initialise() then looks at the logger's event
\* where it means the server's: without a logger it fails with the server running.
Initialise ==
  /\ \/ /\ Main("initialise", IF logger THEN "wait" ELSE "final")
        /\ server' = "starting" /\ UNCHANGED alone
     \/ /\ "Initialise" \in Failures /\ Main("initialise", "final")
        /\ alone' = TRUE /\ UNCHANGED server
  /\ logging' = IF logger THEN "running" ELSE "none"
  /\ UNCHANGED <<modes, told, hpc, status, scm, running, stopEvent, stopped, early, deaf>>

Wait ==
  /\ Main("wait", "shutdown")
  /\ stopEvent \/ server = "ended"
  /\ UNCHANGED <<modes, told, hpc, status, scm, running, stopEvent, server, logging, history>>

\* inetd_signal_stop() writes SIGTERM into the signal pipe; a write without one is logged.
Shutdown ==
  /\ Main("shutdown", "await server")
  /\ server' = IF server = "running" THEN "told" ELSE server
  /\ deaf' = (server = "starting")
  /\ UNCHANGED <<modes, told, hpc, status, scm, running, stopEvent, logging, stopped, early, alone>>

AwaitServerNot ==  \* mutant: Shutdown() goes on when it has asked the server to end
  /\ Main("await server", "logger")
  /\ UNCHANGED <<modes, told, hpc, status, scm, running, stopEvent, server, logging, history>>

\* Thirty seconds are enough for a server that was told.
AwaitServer ==
  /\ Main("await server", "logger")
  /\ server = "ended" \/ deaf
  /\ UNCHANGED <<modes, told, hpc, status, scm, running, stopEvent, server, logging, history>>

StopLogger ==
  /\ Main("logger", "await logger")
  /\ logging' = IF logging = "running" THEN "told" ELSE logging
  /\ UNCHANGED <<modes, told, hpc, status, scm, running, stopEvent, server, history>>

\* And for the logger, unless the server goes on writing.
AwaitLogger ==
  /\ Main("await logger", "final")
  /\ logging = "ended" \/ server # "ended"
  /\ UNCHANGED <<modes, told, hpc, status, scm, running, stopEvent, server, logging, history>>

\* The end of ServiceMain(), which goes on to use the object after the report,
Final ==
  /\ ~console
  /\ SetStatus("final", "stopped", "left")
  /\ UNCHANGED <<modes, mpc, hpc, scm, running, stopEvent, server, logging, history>>

\* and of ConsoleStart().
ConsoleEnd ==
  /\ console /\ Main("final", "left")
  /\ running' = FALSE
  /\ UNCHANGED <<modes, told, hpc, status, scm, stopEvent, server, logging, history>>

ServiceMain ==
  \/ Tell \/ Register \/ Pending \/ OnInit \/ SetRunning \/ ConsoleStart \/ Initialise \/ Wait
  \/ Shutdown \/ AwaitServer \/ StopLogger \/ AwaitLogger \/ Final \/ ConsoleEnd

-----------------------------------------------------------------------------
(* The server and the logger thread.                                       *)

SignalPipe ==
  /\ Alive /\ server = "starting" /\ server' = "running"
  /\ UNCHANGED <<modes, mpc, told, hpc, status, scm, running, stopEvent, logging, history>>

ServerStops ==
  /\ Alive /\ server = "told" /\ server' = "ended"
  /\ UNCHANGED <<modes, mpc, told, hpc, status, scm, running, stopEvent, logging, history>>

ServerFails ==
  /\ Alive /\ "server ends" \in Failures /\ server \in {"starting", "running"}
  /\ server' = "ended" /\ alone' = TRUE
  /\ UNCHANGED <<modes, mpc, told, hpc, status, scm, running, stopEvent, logging, stopped, early, deaf>>

LoggerEnds ==
  /\ Alive /\ logging = "told" /\ logging' = "ended"
  /\ UNCHANGED <<modes, mpc, told, hpc, status, scm, running, stopEvent, server, history>>

-----------------------------------------------------------------------------
(* ControlHandler(), called by the dispatcher.                             *)

Handler(from, to) == hpc = from /\ hpc' = to

\* A STOP is accepted of a running service, an INTERROGATE always.
Stop ==
  /\ Handler("dispatch", "stop") /\ scm = "running" /\ ~console
  /\ stopped' = TRUE /\ early' = ~running
  /\ UNCHANGED <<modes, mpc, told, status, scm, running, stopEvent, server, logging, deaf, alone>>

Interrogate ==
  /\ Handler("dispatch", "report") /\ mpc \notin {"start", "left"} /\ ~console /\ scm # "stopped"
  /\ UNCHANGED <<modes, mpc, told, status, scm, running, stopEvent, server, logging, history>>

StopPending ==
  /\ Handler("stop", "stopping")
  /\ status' = "stop pending"
  /\ UNCHANGED <<modes, mpc, told, scm, running, stopEvent, server, logging, history>>

TellPending ==
  /\ Handler("stopping", "clear")
  /\ Report
  /\ UNCHANGED <<modes, mpc, told, status, running, stopEvent, server, logging, history>>

ClearRunning ==
  /\ Handler("clear", "event")
  /\ running' = FALSE
  /\ UNCHANGED <<modes, mpc, told, status, scm, stopEvent, server, logging, history>>

SetStopEventNot ==  \* mutant: the branch of STOP is like that of SHUTDOWN
  /\ Handler("event", "report")
  /\ UNCHANGED <<modes, mpc, told, status, scm, running, stopEvent, server, logging, history>>

SetStopEvent ==
  /\ Handler("event", "report")
  /\ stopEvent' = TRUE
  /\ UNCHANGED <<modes, mpc, told, status, scm, running, server, logging, history>>

TellStatus ==
  /\ Handler("report", "dispatch")
  /\ Report
  /\ UNCHANGED <<modes, mpc, told, status, running, stopEvent, server, logging, history>>

\* The dispatcher, or ConsoleStart(), returns to main(): ~CNTService() asserts ~running,
\* and the process exits, whoever still runs.
Destroy ==
  /\ Handler("dispatch", "destroyed")
  /\ IF console THEN mpc = "left" ELSE scm = "stopped"
  /\ UNCHANGED <<modes, mpc, told, status, scm, running, stopEvent, server, logging, history>>

Exit ==
  /\ Handler("destroyed", "exited")
  /\ UNCHANGED <<modes, mpc, told, status, scm, running, stopEvent, server, logging, history>>

Dispatcher ==
  \/ StopPending \/ TellPending \/ ClearRunning \/ SetStopEvent \/ TellStatus \/ Destroy \/ Exit

-----------------------------------------------------------------------------
Next == ServiceMain \/ Dispatcher \/ Stop \/ Interrogate \/ SignalPipe \/ ServerStops \/ ServerFails \/ LoggerEnds

Spec == Init /\ [][Next]_vars

\* Every thread runs; nothing makes the control manager ask, or the server end of itself.
FairSpec ==
  /\ Spec /\ WF_vars(ServiceMain) /\ WF_vars(Dispatcher)
  /\ WF_vars(SignalPipe) /\ WF_vars(ServerStops) /\ WF_vars(LoggerEnds)

-----------------------------------------------------------------------------
(* Properties.                                                             *)

\* The control manager is told of the end of a service that it stops, whatever the service
\* is doing.  The exception is a server that ends of itself then: ServiceMain() and the
\* handler share m_Status without a lock, "stopped" may be overwritten before it is
\* reported, and nobody reports it again.
StopServed == hpc = "stop" ~> scm = "stopped" \/ alone

\* The process does not exit under a server that serves, unless SIGTERM came before its
\* signal pipe or there is no logger; and the assertion of ~CNTService holds after a STOP
\* that found the service running.
CleanExit ==
  hpc = "destroyed" =>
    /\ server \in {"starting", "running", "told"} => deaf \/ ~logger
    /\ running => ~stopped \/ early
=============================================================================

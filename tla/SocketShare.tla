---------------------------- MODULE SocketShare ----------------------------
(***************************************************************************)
(* SocketShare.h: the daemon starts a process and hands it a duplicate of  *)
(* a connected socket, through a named pipe and two manual-reset events.   *)
(* A Server publishes one socket (do_fork) or several (clients/dup_test);  *)
(* the process is its Client.  One pipe instance, one client; times are    *)
(* nondeterministic: a wait may end by its limit whenever it is unserved.  *)
(***************************************************************************)
EXTENDS Naturals

CONSTANTS
  MaxSockets,   \* bound: calls of publish() on one Server
  Faults        \* what may go wrong

FaultKinds == {"setup fails", "resume fails", "duplicate fails", "clone fails", "child ends"}

VARIABLES
  ppc,          \* the server: "idle", "push", "connect", "clone", "write", "reset", "signal", "await",
                \* "closed"
  cpc,          \* the client: "none", "suspended", "start", "open", "wait", "unset", "read",
                \* "answer", "have" (it serves its sockets), "ended"
  pipe,         \* "none", "listening", "connected", "broken" (the client left),
                \* "orphan" (the server left), "gone"
  wire,         \* descriptions written and not read
  parentEvent,  \* set by the server: the description is written
  childEvent,   \* set by the client: the description is read
  asked,        \* publish(): calls,
  yes, no,      \*   and answers
  taken,        \* descriptions the client has read
  early         \* the client stopped waiting for parentEvent and read on

events  == <<parentEvent, childEvent>>
answers == <<asked, yes, no>>
vars == <<ppc, cpc, pipe, wire, events, answers, taken, early>>

ServerAt == {"idle", "push", "connect", "clone", "write", "reset", "signal", "await", "closed"}
ClientAt == {"none", "suspended", "start", "open", "wait", "unset", "read", "answer", "have", "ended"}

TypeOK ==
  /\ ppc \in ServerAt /\ cpc \in ClientAt
  /\ pipe \in {"none", "listening", "connected", "broken", "orphan", "gone"}
  /\ wire \in Nat /\ taken \in Nat
  /\ parentEvent \in BOOLEAN /\ childEvent \in BOOLEAN
  /\ asked \in Nat /\ yes \in Nat /\ no \in Nat
  /\ early \in BOOLEAN

Init ==
  /\ ppc = "idle" /\ cpc = "none" /\ pipe = "none"
  /\ wire = 0 /\ taken = 0
  /\ parentEvent = FALSE /\ childEvent = FALSE
  /\ asked = 0 /\ yes = 0 /\ no = 0
  /\ early = FALSE

-----------------------------------------------------------------------------
(* The server: publish(), PushSocket() and WriteSocket().                  *)

Success == yes' = yes + 1 /\ ppc' = "idle" /\ UNCHANGED <<asked, no>>
Failure == no' = no + 1 /\ ppc' = "idle" /\ UNCHANGED <<asked, yes>>

\* publish(): with a pipe from an earlier call the process is there already.
Publish ==
  /\ ppc = "idle" /\ asked < MaxSockets
  /\ asked' = asked + 1
  /\ ppc' = IF pipe = "none" THEN "push" ELSE "clone"
  /\ UNCHANGED <<cpc, pipe, wire, events, yes, no, taken, early>>

\* An event, the pipe or the process cannot be created; the pipe is closed again.
PushFails ==
  /\ ppc = "push" /\ "setup fails" \in Faults
  /\ Failure
  /\ UNCHANGED <<cpc, pipe, wire, events, taken, early>>

\* The process is created suspended, put into the job (a failure is only printed) and
\* resumed.  When that fails publish() has failed, and the process stays as it is.
Push ==
  /\ ppc = "push"
  /\ pipe' = "listening"
  /\ \/ cpc' = "start" /\ ppc' = "connect" /\ UNCHANGED answers
     \/ "resume fails" \in Faults /\ cpc' = "suspended" /\ Failure
  /\ UNCHANGED <<wire, events, taken, early>>

\* ConnectNamedPipe.
Connected ==
  /\ ppc = "connect" /\ pipe = "connected"
  /\ ppc' = "clone"
  /\ UNCHANGED <<cpc, pipe, wire, events, answers, taken, early>>

\* The client has left again, or has not come within five seconds.
NotConnected ==
  /\ ppc = "connect"
  /\ pipe \in {"broken", "listening"}
  /\ Failure
  /\ UNCHANGED <<cpc, pipe, wire, events, taken, early>>

\* WSADuplicateSocketW, for a process that exists.
Clone ==
  /\ ppc = "clone"
  /\ \/ cpc # "ended" /\ ppc' = "write" /\ UNCHANGED answers
     \/ (cpc = "ended" \/ "duplicate fails" \in Faults) /\ Failure
  /\ UNCHANGED <<cpc, pipe, wire, events, taken, early>>

\* The two WriteFile calls; they fail without a client at the other end.
Write ==
  /\ ppc = "write"
  /\ \/ pipe = "connected" /\ wire' = wire + 1 /\ ppc' = "reset" /\ UNCHANGED answers
     \/ pipe # "connected" /\ Failure /\ UNCHANGED wire
  /\ UNCHANGED <<cpc, pipe, events, taken, early>>

ResetChildEventNot ==  \* mutant: the event keeps the answer to an earlier call
  /\ ppc = "reset" /\ ppc' = "signal"
  /\ UNCHANGED <<cpc, pipe, wire, events, answers, taken, early>>

ResetChildEvent ==
  /\ ppc = "reset"
  /\ childEvent' = FALSE /\ ppc' = "signal"
  /\ UNCHANGED <<cpc, pipe, wire, parentEvent, answers, taken, early>>

SetParentEvent ==
  /\ ppc = "signal"
  /\ parentEvent' = TRUE /\ ppc' = "await"
  /\ UNCHANGED <<cpc, pipe, wire, childEvent, answers, taken, early>>

Answered ==
  /\ ppc = "await" /\ childEvent
  /\ Success
  /\ UNCHANGED <<cpc, pipe, wire, events, taken, early>>

\* Two seconds without an answer.
NotAnswered ==
  /\ ppc = "await" /\ ~childEvent
  /\ Failure
  /\ UNCHANGED <<cpc, pipe, wire, events, taken, early>>

\* ~ServerProfile; what is in the pipe can still be read.
Close ==
  /\ ppc = "idle" /\ asked > 0
  /\ ppc' = "closed"
  /\ pipe' = CASE pipe = "connected" -> "orphan"
               [] pipe = "none"      -> "none"
               [] OTHER              -> "gone"
  /\ UNCHANGED <<cpc, wire, events, answers, taken, early>>

Server ==
  \/ PushFails \/ Push \/ Connected \/ NotConnected \/ Clone \/ Write
  \/ ResetChildEvent \/ SetParentEvent \/ Answered \/ NotAnswered

-----------------------------------------------------------------------------
(* The client: GetSocket(), WaitSocket() and ReadSocket().                 *)

\* OpenEvent; nobody holds the events once the server has closed its handles.
OpenEvents ==
  /\ cpc = "start"
  /\ cpc' = IF ppc = "closed" THEN "ended" ELSE "open"
  /\ UNCHANGED <<ppc, pipe, wire, events, answers, taken, early>>

OpenPipe ==
  /\ cpc = "open"
  /\ \/ pipe = "listening" /\ pipe' = "connected" /\ cpc' = "wait" /\ UNCHANGED childEvent
     \/ pipe # "listening" /\ childEvent' = TRUE /\ cpc' = "ended" /\ UNCHANGED pipe
  /\ UNCHANGED <<ppc, wire, parentEvent, answers, taken, early>>

Signalled ==
  /\ cpc = "wait" /\ parentEvent
  /\ cpc' = "unset"
  /\ UNCHANGED <<ppc, pipe, wire, events, answers, taken, early>>

\* Only WAIT_FAILED is looked at: after two seconds ReadSocket() reads on.
TimedOut ==
  /\ cpc = "wait" /\ ~parentEvent
  /\ early' = TRUE /\ cpc' = "unset"
  /\ UNCHANGED <<ppc, pipe, wire, events, answers, taken>>

ResetParentEvent ==
  /\ cpc = "unset"
  /\ parentEvent' = FALSE /\ cpc' = "read"
  /\ UNCHANGED <<ppc, pipe, wire, childEvent, answers, taken, early>>

ReadWaits ==  \* mutant: the end of the pipe is taken for no data yet
  /\ cpc = "read" /\ wire > 0
  /\ wire' = wire - 1 /\ taken' = taken + 1 /\ cpc' = "answer"
  /\ UNCHANGED <<ppc, pipe, events, answers, early>>

\* The two ReadFile calls, which wait for a description or for the server's end to be closed.
Read ==
  /\ cpc = "read"
  /\ \/ wire > 0 /\ wire' = wire - 1 /\ taken' = taken + 1 /\ cpc' = "answer"
     \/ wire = 0 /\ pipe = "orphan" /\ cpc' = "ended" /\ UNCHANGED <<wire, taken>>
  /\ UNCHANGED <<ppc, pipe, events, answers, early>>

\* The client leaves, and with it the other end of the pipe.
Leave ==
  /\ cpc' = "ended"
  /\ pipe' = CASE pipe = "connected" -> "broken"
               [] pipe = "orphan"    -> "gone"
               [] OTHER              -> pipe

AnswerFailure ==  \* mutant: the server is answered only when WSASocketW has failed
  /\ cpc = "answer"
  /\ \/ cpc' = "have" /\ UNCHANGED <<pipe, childEvent>>
     \/ "clone fails" \in Faults /\ Leave /\ childEvent' = TRUE
  /\ UNCHANGED <<ppc, wire, parentEvent, answers, taken, early>>

\* WSASocketW; the server is answered whether or not it succeeded.
Answer ==
  /\ cpc = "answer"
  /\ childEvent' = TRUE
  /\ \/ cpc' = "have" /\ UNCHANGED pipe
     \/ "clone fails" \in Faults /\ Leave
  /\ UNCHANGED <<ppc, wire, parentEvent, answers, taken, early>>

\* dup_test: wait() and get() once more, while the socket is served by a thread.
WaitAgain ==
  /\ cpc = "have" /\ parentEvent
  /\ cpc' = "wait"
  /\ UNCHANGED <<ppc, pipe, wire, events, answers, taken, early>>

\* The process ends, of itself or when its connection does.
End ==
  /\ cpc \notin {"none", "suspended", "ended"}
  /\ cpc = "have" \/ "child ends" \in Faults
  /\ Leave
  /\ UNCHANGED <<ppc, wire, events, answers, taken, early>>

Client ==
  \/ OpenEvents \/ OpenPipe \/ Signalled \/ TimedOut
  \/ ResetParentEvent \/ Read \/ Answer \/ WaitAgain

-----------------------------------------------------------------------------
Next == Publish \/ Server \/ Close \/ Client \/ End

Spec == Init /\ [][Next]_vars

\* Both processes run, and the server is destroyed in the end (do_fork: on return).
FairSpec == Spec /\ WF_vars(Server) /\ WF_vars(Client) /\ WF_vars(Close)

-----------------------------------------------------------------------------
(* Properties.                                                             *)

\* publish() is always answered, and never more often with success than a description was
\* taken off the pipe: WriteSocket() resets the event before it waits for it, so an answer
\* that is left over from an earlier call is not counted twice.
H == INSTANCE Handover

HandoverSpec == H!Spec

\* An answer is not lost: a client that waited for parentEvent, as it should, and has read
\* all there was is not waited for in vain.  Only one that gave up waiting and read on may
\* have its answer undone by ResetEvent(child), which comes after the write.
AnswerKept == (ppc = "await" /\ wire = 0 /\ cpc = "have" /\ ~early) => childEvent

\* The client is never left waiting: it gets its socket, or notices that it will not.
NobodyHangs == cpc \in {"start", "open", "wait", "unset", "read", "answer"} ~> cpc \in {"have", "ended"}
=============================================================================

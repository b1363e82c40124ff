----------------------------- MODULE MCDispatch -----------------------------
(***************************************************************************)
(* The ends of a child's life, as TLC checks them: the process group that  *)
(* tells the main thread of exits (ProcessGroup), and the main thread that *)
(* starts and reaps children from its loop over select() (SelectLoop).     *)
(* They share no state here; a behaviour is one of the two.                *)
(***************************************************************************)
EXTENDS ProcessGroup
CONSTANTS
  p1, p2, s1, s2, f1, f2,
  Services, Streams, Builtins, Fds, PipeFd, FdMax, Limits, MaxLimit,    \* SelectLoop
  Rates, MaxRate, MaxWaiting, NoFd, NoService
VARIABLES
  part,
  toomany, listener, hazards, inTable, kind, fd, running, maxchild, secount, children,
  waiting, life, owner, stale, slMpc, msvc, todo, mnew, allsock, readable, batch, adjusted,
  slSignals, pipe, timingout, down

\* With the lemmas about it, for the proofs about the two.
SL == INSTANCE SelectLoop_proofs WITH mpc <- slMpc, signals <- slSignals

ASSUME DispatchAssumption == SL!SelectAssumption

selectVars == <<toomany, listener, hazards, inTable, kind, fd, running, maxchild, secount, children,
                waiting, life, owner, stale, slMpc, msvc, todo, mnew, allsock, readable, batch,
                adjusted, slSignals, pipe, timingout, down>>

Of(name) == part = name

\* With no looping check, reloads go on for ever; with one, the service that the file holds
\* is reset, closed, refused or stopped.  As its constructors leave the listeners, nothing
\* is served.
Worlds ==
  \/ toomany = 0 /\ hazards = {"reload"} /\ listener = "closed"
  \/ toomany = 2 /\ hazards = {"setup fails", "stop", "bad config"} /\ listener = "closed"
     /\ Cardinality(mnew) = 1
  \/ toomany = 0 /\ hazards = {"setup fails"} /\ listener = "zero"

\* The part that does not move is as it began, in one way.
DispatchInit ==
  /\ part \in {"group", "select"}
  /\ Init /\ SL!Init
  /\ IF Of("select") THEN Worlds
     ELSE toomany = 0 /\ hazards = {} /\ listener = "closed" /\ mnew = {}

DispatchNext ==
  /\ \/ Of("group") /\ Next /\ UNCHANGED selectVars
     \/ Of("select") /\ SL!Next /\ UNCHANGED vars
  /\ UNCHANGED part

\* The fairness of the two specifications.
DispatchSpec ==
  /\ DispatchInit /\ [][DispatchNext]_<<part, vars, selectVars>>
  /\ WF_vars(JobEventTask) /\ WF_vars(Main)
  /\ WF_selectVars(Of("select") /\ SL!Main)

\* The states of the two have their types; the one that does not move is as it began.
TypesOK == IF Of("group") THEN TypeOK ELSE SL!TypeOK

\* SelectLoop: the set of select(), the services that run and the children that are counted.
SelectRight == Of("select") => SL!SelectRight

\* SelectLoop: room is looked at before a child is added, and clients are served.
RoomAtRound == SL!RoomAtRound
Served == SL!Served
=============================================================================

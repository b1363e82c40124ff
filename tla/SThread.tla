------------------------------- MODULE SThread -------------------------------
(***************************************************************************)
(* thread.c of libsthread: the instance behind a pthread_t, from           *)
(* pthread_create() until it is freed, by the thread itself when it ends   *)
(* detached and by pthread_join() otherwise.  Which of the two is told by  *)
(* its handle, which create writes when the thread may have ended already. *)
(* The caller is one thread, which joins what it made, or detaches it, or  *)
(* had it made detached, and then has done with it.                        *)
(***************************************************************************)
EXTENDS Naturals

VARIABLES
  caller,     \* the step of the one who creates, joins and detaches
  thread,     \* the step of the thread
  detached,   \* the attribute
  allocated,  \* the instance has not been freed
  handle,     \* instance->handle is not 0
  joining,    \* instance->joining
  ret,        \* instance->ret is the thread's value
  open,       \* the system's handle has not been closed
  result,     \* of the last call
  quick,      \* the thread has looked at the handle before create wrote it
  late,       \* it was detached after the thread had looked
  wild        \* a freed instance was read, written or freed

vars == <<caller, thread, detached, allocated, handle, joining, ret, open, result, quick, late, wild>>
instance == <<allocated, handle, joining, ret, open>>

CallerSteps == {"create", "assign", "drop", "made", "join", "wait", "take", "done", "lost"}
ThreadSteps == {"none", "runs", "returned", "unattached", "exits", "unjoined", "frees", "over"}

TypeOK ==
  /\ caller \in CallerSteps /\ thread \in ThreadSteps
  /\ detached \in BOOLEAN /\ allocated \in BOOLEAN /\ handle \in BOOLEAN /\ joining \in BOOLEAN
  /\ ret \in BOOLEAN /\ open \in BOOLEAN
  /\ result \in {"none", "0", "value", "no value", "ESRCH", "EINVAL"}
  /\ quick \in BOOLEAN /\ late \in BOOLEAN /\ wild \in BOOLEAN

\* instance_new() of a zeroed instance.
Init ==
  /\ caller = "create" /\ thread = "none" /\ detached \in BOOLEAN
  /\ allocated = TRUE /\ handle = FALSE /\ joining = FALSE /\ ret = FALSE /\ open = FALSE
  /\ result = "none" /\ quick = FALSE /\ late = FALSE /\ wild = FALSE

Goto(from, to) == caller = from /\ caller' = to
Turn(from, to) == thread = from /\ thread' = to
\* Of a step that uses the instance.
Uses == wild' = (wild \/ ~allocated)

-----------------------------------------------------------------------------
(* pthread_create().                                                       *)

\* _beginthreadex() returns 0 when there is no thread, which is not the value it is compared
\* with: create goes on.
Create ==
  /\ Goto("create", "assign")
  /\ \/ Turn("none", "runs") /\ open' = TRUE
     \/ UNCHANGED <<thread, open>>
  /\ UNCHANGED <<detached, allocated, handle, joining, ret, result, quick, late, wild>>

Assign ==
  /\ Goto("assign", IF detached THEN "drop" ELSE "made")
  /\ handle' = (thread # "none") /\ Uses
  /\ result' = "0"
  /\ UNCHANGED <<thread, detached, allocated, joining, ret, open, quick, late>>

\* A thread made detached.
Drop ==
  /\ Goto("drop", "done")
  /\ handle' = FALSE /\ open' = FALSE /\ Uses
  /\ late' = (thread \in {"exits", "over"} /\ allocated)
  /\ UNCHANGED <<thread, detached, allocated, joining, ret, result, quick>>

-----------------------------------------------------------------------------
(* pthread_join() and pthread_detach().  What they do with an instance     *)
(* that has been freed is not followed.                                    *)

Lost ==
  /\ caller \in {"made", "join", "wait", "take"} /\ ~allocated
  /\ caller' = "lost" /\ wild' = TRUE
  /\ UNCHANGED <<thread, detached, instance, result, quick, late>>

\* Its magic is right.
Join ==
  /\ Goto("made", "join") /\ allocated
  /\ UNCHANGED <<thread, detached, instance, result, quick, late, wild>>

JoinLock ==
  /\ Goto("join", "wait") /\ allocated
  /\ joining' = TRUE
  /\ UNCHANGED <<thread, detached, allocated, handle, ret, open, result, quick, late, wild>>

WaitNot ==  \* mutant: the wait is left out
  /\ Goto("wait", "take") /\ handle
  /\ UNCHANGED <<thread, detached, instance, result, quick, late, wild>>

Wait ==
  /\ Goto("wait", "take")
  /\ allocated /\ handle /\ thread = "over"
  /\ UNCHANGED <<thread, detached, instance, result, quick, late, wild>>

\* WaitForSingleObject() of no handle.
WaitFails ==
  /\ Goto("wait", "done") /\ allocated /\ ~handle
  /\ joining' = FALSE /\ result' = "ESRCH"
  /\ UNCHANGED <<thread, detached, allocated, handle, ret, open, quick, late, wild>>

Take ==
  /\ Goto("take", "done") /\ allocated
  /\ IF handle THEN result' = (IF ret THEN "value" ELSE "no value") /\ open' = FALSE
               ELSE result' = "ESRCH" /\ UNCHANGED open
  /\ allocated' = FALSE
  /\ UNCHANGED <<thread, detached, handle, joining, ret, quick, late, wild>>

Detach ==
  /\ Goto("made", "done") /\ allocated
  /\ IF handle THEN result' = "0" /\ handle' = FALSE /\ open' = FALSE
                      /\ late' = (thread \in {"exits", "over"})
               ELSE result' = "EINVAL" /\ UNCHANGED <<handle, open, late>>
  /\ UNCHANGED <<thread, detached, allocated, joining, ret, quick, wild>>

-----------------------------------------------------------------------------
(* windows_thread() and pthread_exit(): the one looks at the handle and    *)
(* then whether it is being joined, the other the other way round.         *)

Return ==
  /\ Turn("runs", "returned")
  /\ ret' = TRUE /\ Uses
  /\ UNCHANGED <<caller, detached, allocated, handle, joining, open, result, quick, late>>

Look ==
  /\ Turn("returned", IF handle THEN "over" ELSE "unattached")
  /\ quick' = (caller = "assign") /\ Uses
  /\ UNCHANGED <<caller, detached, instance, result, late>>

FreeAlways ==  \* mutant: the handle is not looked at
  /\ Turn("returned", "unattached")
  /\ UNCHANGED <<caller, detached, instance, result, quick, late, wild>>

FreeDetached ==
  /\ Turn("unattached", "over")
  /\ allocated' = (allocated /\ joining) /\ Uses
  /\ UNCHANGED <<caller, detached, handle, joining, ret, open, result, quick, late>>

Exit ==
  /\ \/ Turn("runs", "exits") /\ joining /\ ret' = TRUE
     \/ Turn("runs", "unjoined") /\ ~joining /\ UNCHANGED ret
  /\ Uses
  /\ UNCHANGED <<caller, detached, allocated, handle, joining, open, result, quick, late>>

ExitLook ==
  /\ Turn("unjoined", IF handle THEN "exits" ELSE "frees")
  /\ ret' = (ret \/ handle) /\ Uses
  /\ quick' = (caller = "assign")
  /\ UNCHANGED <<caller, detached, allocated, handle, joining, open, result, late>>

ExitFree ==
  /\ Turn("frees", "exits")
  /\ allocated' = FALSE /\ Uses
  /\ UNCHANGED <<caller, detached, handle, joining, ret, open, result, quick, late>>

\* The destructors of its keys have been called.
ExitOver ==
  /\ Turn("exits", "over")
  /\ UNCHANGED <<caller, detached, instance, result, quick, late, wild>>

-----------------------------------------------------------------------------
Calling == Create \/ Assign \/ Drop \/ JoinLock \/ Wait \/ WaitFails \/ Take \/ Lost
Running == Return \/ Look \/ FreeDetached \/ Exit \/ ExitLook \/ ExitFree \/ ExitOver
Next == Calling \/ Join \/ Detach \/ Running

Spec == Init /\ [][Next]_vars /\ WF_vars(Calling) /\ WF_vars(Running)

-----------------------------------------------------------------------------
\* Wherever the magic of an instance is asserted it is there, and an instance is freed once,
\* by its last user: but for a thread that ends before pthread_create() has kept its handle.
Asserts == wild => quick

\* A join that says so has the thread's value, and has freed everything; a detached thread
\* does, unless it had ended its checks before it was detached (its instance is left).
Freed ==
  /\ result # "no value"
  /\ result = "value" => ~allocated /\ ~open /\ thread = "over"
  /\ caller = "done" /\ thread = "over" /\ allocated => late
  /\ caller = "done" /\ result = "ESRCH" => thread = "none"

\* Whoever waits for a thread that runs gets its value, when the thread has ended (or has
\* used what was freed: Asserts says when).
Joined == caller = "wait" /\ thread # "none" ~> result = "value" \/ caller = "lost"
=============================================================================

-------------------------------- MODULE Log --------------------------------
(***************************************************************************)
(* What Logger promises those who push(): the lines are handled in the     *)
(* order in which they were pushed, each once, without waiting for another *)
(* line to come after them, and all of them before a stop() that is called *)
(* after them returns.                                                     *)
(***************************************************************************)
EXTENDS Integers, Sequences

VARIABLES
  pushed,   \* how many lines
  log,      \* the lines handled, by number
  due,      \* lines pushed when stop() was called; -1: it was not
  open      \* there is a consumer

vars == <<pushed, log, due, open>>

Init == pushed = 0 /\ log = <<>> /\ due = -1 /\ open = TRUE

Push == pushed' = pushed + 1 /\ UNCHANGED <<log, due, open>>
Line == /\ open /\ Len(log) < pushed
        /\ log' = Append(log, Len(log) + 1)
        /\ UNCHANGED <<pushed, due, open>>
Stop == due = -1 /\ due' = pushed /\ UNCHANGED <<pushed, log, open>>
Close == /\ open /\ due # -1 /\ Len(log) >= due
         /\ open' = FALSE
         /\ UNCHANGED <<pushed, log, due>>

Next == Push \/ Line \/ Stop \/ Close

Safety == Init /\ [][Next]_vars
Spec   == Safety /\ WF_vars(Line)
=============================================================================

------------------------------- MODULE Reaper -------------------------------
(***************************************************************************)
(* What ProcessGroup promises to inetd.cpp: a process handed to track() is *)
(* reported by wait() once, after it has ended, and eventually.            *)
(***************************************************************************)
CONSTANT Pids

VARIABLE proc   \* "free", "running" or "ended", for each process identifier

Init == proc = [p \in Pids |-> "free"]

\* track(); the process may have ended already.
Start(p) == /\ proc[p] = "free"
            /\ \E now \in {"running", "ended"} : proc' = [proc EXCEPT ![p] = now]
End(p)   == proc[p] = "running" /\ proc' = [proc EXCEPT ![p] = "ended"]

\* wait() returns p; from now on the system may use the identifier again.
Report(p) == proc[p] = "ended" /\ proc' = [proc EXCEPT ![p] = "free"]

Next == \E p \in Pids : Start(p) \/ End(p) \/ Report(p)

Safety == Init /\ [][Next]_proc
Spec   == Safety /\ \A p \in Pids : WF_proc(Report(p))
=============================================================================

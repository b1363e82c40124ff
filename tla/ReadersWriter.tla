--------------------------- MODULE ReadersWriter ---------------------------
(***************************************************************************)
(* What a struct rwlock promises its callers: readers share, a writer is   *)
(* alone.                                                                  *)
(***************************************************************************)
CONSTANT Threads

VARIABLES reading, writing  \* the threads that hold the lock

Init == reading = {} /\ writing = {}

BeginRead(t)  == writing = {} /\ reading' = reading \cup {t} /\ UNCHANGED writing
EndRead(t)    == t \in reading /\ reading' = reading \ {t} /\ UNCHANGED writing
BeginWrite(t) == reading = {} /\ writing = {} /\ writing' = {t} /\ UNCHANGED reading
EndWrite(t)   == t \in writing /\ writing' = writing \ {t} /\ UNCHANGED reading

Next == \E t \in Threads : BeginRead(t) \/ EndRead(t) \/ BeginWrite(t) \/ EndWrite(t)

Spec == Init /\ [][Next]_<<reading, writing>>
=============================================================================

------------------------------ MODULE Handover ------------------------------
(***************************************************************************)
(* What SocketShare promises to do_fork(): every publish() is answered,    *)
(* and it is answered with success no more often than a child has taken a  *)
(* socket off the pipe.                                                    *)
(***************************************************************************)
EXTENDS Naturals

VARIABLES
  asked,    \* calls of publish()
  yes, no,  \* its answers
  taken     \* socket descriptions the child has read

vars == <<asked, yes, no, taken>>

Init == asked = 0 /\ yes = 0 /\ no = 0 /\ taken = 0

Busy == yes + no < asked

Ask  == ~Busy /\ asked' = asked + 1 /\ UNCHANGED <<yes, no, taken>>
Take == taken < asked /\ taken' = taken + 1 /\ UNCHANGED <<asked, yes, no>>
Yes  == Busy /\ yes < taken /\ yes' = yes + 1 /\ UNCHANGED <<asked, no, taken>>
No   == Busy /\ no' = no + 1 /\ UNCHANGED <<asked, yes, taken>>

Next == Ask \/ Take \/ Yes \/ No

Safety == Init /\ [][Next]_vars
Spec   == Safety /\ WF_vars(Yes \/ No)
=============================================================================

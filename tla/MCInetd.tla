------------------------------ MODULE MCInetd ------------------------------
(***************************************************************************)
(* The instance of Inetd that TLC checks; the .cfg files give the sets.    *)
(***************************************************************************)
EXTENDS Inetd, TLC

CONSTANTS s1, w1, w2, p1, p2, p3

\* Worker threads are interchangeable, and so are process identifiers.
Symmetry == Permutations({w1, w2}) \cup Permutations({p1, p2, p3})
=============================================================================

---------------------------- MODULE MCCpmLimiter ----------------------------
(***************************************************************************)
(* The instance of CpmLimiter that TLC checks.                             *)
(***************************************************************************)
EXTENDS CpmLimiter
CONSTANTS h1, h2, t1
=============================================================================

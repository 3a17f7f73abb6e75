------------------------------- MODULE MCHub -------------------------------
(* Instances of Hub for TLC. *)
EXTENDS Hub
CONSTANTS k1, k2, me, x1
=============================================================================

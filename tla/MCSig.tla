------------------------------- MODULE MCSig -------------------------------
(* Instances of Sig for TLC.                                               *)
EXTENDS Sig, TLC
=============================================================================

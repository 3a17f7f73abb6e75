---------------------------- MODULE MCFileCheck ----------------------------
(* Instances of FileCheck for TLC.                                         *)
EXTENDS FileCheck, TLC

CONSTANTS p1, p2, p3

(* One process ends and starts again, the others do not.                   *)
OneTwice == (p1 :> 2) @@ (p2 :> 1) @@ (p3 :> 1)
Alike == Permutations({p2, p3})
=============================================================================

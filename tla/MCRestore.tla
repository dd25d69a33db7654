------------------------------ MODULE MCRestore ------------------------------
(***************************************************************************)
(* Restore on small instances.                                             *)
(***************************************************************************)
EXTENDS Restore, TLC

CONSTANTS r1, r2, o1, o2

Restorers == {r1, r2}
Openers == {o1, o2}
OneRestorer == {r1}

RestoreSymmetry == Permutations(Openers)
=============================================================================

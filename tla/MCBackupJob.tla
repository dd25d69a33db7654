---------------------------- MODULE MCBackupJob -----------------------------
(***************************************************************************)
(* BackupJob on small instances.                                           *)
(***************************************************************************)
EXTENDS BackupJob, TLC

CONSTANTS j1, j2, j3, c1, c2

ThreeJobs == {j1, j2, j3}
TwoCleaners == {c1, c2}

ProcessSymmetry == Permutations(ThreeJobs) \cup Permutations(TwoCleaners)
=============================================================================

----------------------------- MODULE MCReconcile -----------------------------
(***************************************************************************)
(* Reconcile on small instances.                                           *)
(***************************************************************************)
EXTENDS Reconcile, TLC

CONSTANTS s1, s2, s3

ThreeStories == {s1, s2, s3}

StorySymmetry == Permutations(ThreeStories)
=============================================================================

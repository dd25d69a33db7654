------------------------------ MODULE MCRunOnce ------------------------------
(***************************************************************************)
(* RunOnce on small instances.                                             *)
(***************************************************************************)
EXTENDS RunOnce, TLC

CONSTANTS r1, r2, s1, s2, t1, t2

TwoRuns == {r1, r2}
TwoStories == {s1, s2}
TwoTargets == {t1, t2}
OneTarget == {t1}

\* two chunks with a story each, or a day without news
TwoChunks == {<<{s1}, {s2}>>, <<{}>>}

NeverForced == {FALSE}
MaybeForced == BOOLEAN

RunSymmetry == Permutations(TwoRuns)
RunAndTargetSymmetry == RunSymmetry \cup Permutations(TwoTargets)
=============================================================================

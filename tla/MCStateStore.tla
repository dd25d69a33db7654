---------------------------- MODULE MCStateStore ----------------------------
(***************************************************************************)
(* StateStore on small instances.                                          *)
(***************************************************************************)
EXTENDS StateStore, TLC

CONSTANTS r1, r2, s1, s2, t1, t2

MCRun == {r1, r2}
MCStory == {s1, s2}
MCTarget == {t1, t2}

\* an empty digest, one chunk, and two chunks that carry a story each
OneDelivery == {<<{}>>, <<{s1}>>, <<{s1}, {s2}>>}

RunSymmetry == Permutations(MCRun)
=============================================================================

------------------------------ MODULE MCDaemon ------------------------------
(***************************************************************************)
(* Daemon on small instances.                                              *)
(***************************************************************************)
EXTENDS Daemon, TLC

CONSTANTS d1, d2

TwoDaemons == {d1, d2}
=============================================================================

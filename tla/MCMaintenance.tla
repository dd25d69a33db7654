--------------------------- MODULE MCMaintenance ---------------------------
(* Values of the constants of module Maintenance: a daemon with its three  *)
(* stores, a one-shot run, and maintenance commands.                       *)
EXTENDS Maintenance, TLC

CONSTANTS daemon, sched, beat, run, cron, once, m1, m2

Daemon == {daemon}
DaemonStores == {sched, beat, run}
DaemonHome == [s \in DaemonStores |-> daemon]
DaemonOuter == (sched :> None) @@ (beat :> sched) @@ (run :> sched)

Both == {daemon, cron}
BothStores == DaemonStores \cup {once}
BothHome == (once :> cron) @@ DaemonHome
BothOuter == (once :> None) @@ DaemonOuter

Heartbeat == {beat}
OneCommand == {m1}
TwoCommands == {m1, m2}
Commands == Permutations({m1, m2})
=============================================================================

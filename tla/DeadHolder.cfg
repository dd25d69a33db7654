SPECIFICATION FairSpec
CONSTANTS
  daemon = daemon
  cron = cron
  sched = sched
  beat = beat
  run = run
  once = once
  m1 = m1
  m2 = m2
  Proc <- Daemon
  Store <- DaemonStores
  Home <- DaemonHome
  Outer <- DaemonOuter
  Beat <- Heartbeat
  Maint <- OneCommand
  None = None
  MaxGuards = 4
  MaxFaults = 1
PROPERTY DeadHolderNeverBlocks
CHECK_DEADLOCK FALSE

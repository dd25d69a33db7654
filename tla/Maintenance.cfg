SPECIFICATION Spec
CONSTANTS
  daemon = daemon
  cron = cron
  sched = sched
  beat = beat
  run = run
  once = once
  m1 = m1
  m2 = m2
  Proc <- Both
  Store <- BothStores
  Home <- BothHome
  Outer <- BothOuter
  Beat <- Heartbeat
  Maint <- TwoCommands
  None = None
  MaxGuards = 4
  MaxFaults = 2
SYMMETRY Commands
INVARIANTS Exclusion AuthorityKept OpenHasAuthority
CHECK_DEADLOCK FALSE

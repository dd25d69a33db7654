SPECIFICATION Spec
CONSTANTS
  d1 = d1
  d2 = d2
  Daemon <- TwoDaemons
  None = None
  Other = Other
  Phases = 3
  Slot = 1
  MaxDelay = 2
  MaxTries = 2
  MaxFaults = 1
  MaxOthers = 1
INVARIANTS OneScheduler SlotPlanned NoOwnSpin
PROPERTIES DaemonSettles

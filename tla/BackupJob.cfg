SPECIFICATION Spec
CONSTANTS
  j1 = j1
  j2 = j2
  j3 = j3
  c1 = c1
  c2 = c2
  Job <- ThreeJobs
  Cleaner <- TwoCleaners
  MaxDay = 2
  WeekDays = 2
  Daily = 1
  Weekly = 2
SYMMETRY ProcessSymmetry
INVARIANTS SharedOnlyByTakeover DeadNeverBlocks PeriodsKept ManifestOutlivesDatabase

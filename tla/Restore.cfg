SPECIFICATION Spec
CONSTANTS
  r1 = r1
  r2 = r2
  o1 = o1
  o2 = o2
  None = None
  Restorer <- Restorers
  Opener <- Openers
  Overlap = FALSE
  MaxFaults = 4
SYMMETRY RestoreSymmetry
INVARIANTS NoForeignSidecar OldOrNew
PROPERTIES NeverFresh ReportIsTrue
